---- MODULE Spec2Model ----
(***************************************************************************)
(* Model of the Time Warp unified interpreter (src/src): program loader,   *)
(* command classifier, BASIC and Logo executors, the expression evaluator  *)
(* and the execute / provide_input scheduler protocol.                     *)
(*                                                                         *)
(* Program text is kept as text: a TLA+ string is a Rust &str, Chr(s, i)   *)
(* is its i-th character, and the helpers below are the std string         *)
(* methods the source calls (trim, to_uppercase, splitn, find, parse).     *)
(* Numbers are the f64 values of the source restricted to integers.        *)
(***************************************************************************)
EXTENDS Integers, Sequences, FiniteSets, TLC

(***************************************************************************)
(* Option<T>                                                               *)
(***************************************************************************)
None == <<>>
Some(x) == <<x>>
Unwrap(o) == o[1]

(***************************************************************************)
(* Characters and std string methods                                       *)
(***************************************************************************)
Chr(s, i) == SubSeq(s, i, i)

\* A value of the source that is no integer, or a panic, has no counterpart in
\* the model: evaluating it stops the check instead of standing in a value for it.
Unrepresentable == CHOOSE v \in {} : TRUE

Digits == "0123456789"
UpperLetters == "ABCDEFGHIJKLMNOPQRSTUVWXYZ"
LowerLetters == "abcdefghijklmnopqrstuvwxyz"

CharSet(s) == { Chr(s, i) : i \in 1..Len(s) }

IsWhitespace(c) == c \in {" ", "\t", "\n", "\r"}
IsAsciiDigit(c) == c \in CharSet(Digits)

IndexIn(c, s) == CHOOSE i \in 1..Len(s) : Chr(s, i) = c

UpperChar(c) == IF c \in CharSet(LowerLetters) THEN Chr(UpperLetters, IndexIn(c, LowerLetters)) ELSE c

RECURSIVE to_uppercase(_)
to_uppercase(s) == IF s = "" THEN "" ELSE UpperChar(Chr(s, 1)) \o to_uppercase(SubSeq(s, 2, Len(s)))

RECURSIVE trim_start(_)
trim_start(s) == IF s # "" /\ IsWhitespace(Chr(s, 1)) THEN trim_start(SubSeq(s, 2, Len(s))) ELSE s

RECURSIVE trim_end(_)
trim_end(s) == IF s # "" /\ IsWhitespace(Chr(s, Len(s))) THEN trim_end(SubSeq(s, 1, Len(s) - 1)) ELSE s

trim(s) == trim_end(trim_start(s))

starts_with(s, p) == Len(s) >= Len(p) /\ SubSeq(s, 1, Len(p)) = p
ends_with(s, p) == Len(s) >= Len(p) /\ SubSeq(s, Len(s) - Len(p) + 1, Len(s)) = p

\* str::find / str::rfind: 0-based offset of the first / last occurrence, or None
MatchesAt(s, p) == { i \in 1..(Len(s) - Len(p) + 1) : SubSeq(s, i, i + Len(p) - 1) = p }
Min(S) == CHOOSE x \in S : \A y \in S : x <= y
find(s, p) == IF MatchesAt(s, p) = {} THEN None ELSE Some(Min(MatchesAt(s, p)) - 1)
rfind(s, p) ==
    IF MatchesAt(s, p) = {} THEN None
    ELSE Some((CHOOSE x \in MatchesAt(s, p) : \A y \in MatchesAt(s, p) : x >= y) - 1)

\* s[a..b] and s[a..] with Rust's 0-based, end-exclusive offsets; a > b panics
\* in the source, and no program of the model does it
Slice(s, a, b) == IF a <= b THEN SubSeq(s, a + 1, b) ELSE Unrepresentable
SliceFrom(s, a) == SubSeq(s, a + 1, Len(s))

\* splitn(2, char::is_whitespace): the text before the first whitespace
\* character and, when there is one, the text after it
splitn2(s) ==
    LET ws == { i \in 1..Len(s) : IsWhitespace(Chr(s, i)) } IN
    IF ws = {} THEN <<s>>
    ELSE <<SubSeq(s, 1, Min(ws) - 1), SubSeq(s, Min(ws) + 1, Len(s))>>

\* split_whitespace(): the maximal runs of non-whitespace characters
RECURSIVE split_whitespace(_)
split_whitespace(s) ==
    LET t == trim_start(s) IN
    IF t = "" THEN <<>>
    ELSE LET p == splitn2(t) IN
         IF Len(p) = 1 THEN <<t>> ELSE <<p[1]>> \o split_whitespace(p[2])

\* split(c): the pieces between occurrences of the character c
RECURSIVE split(_, _)
split(s, c) ==
    LET f == find(s, c) IN
    IF f = None THEN <<s>>
    ELSE <<Slice(s, 0, Unwrap(f))>> \o split(SliceFrom(s, Unwrap(f) + 1), c)

\* str::lines(): split at "\n", a final empty piece dropped, a trailing "\r" stripped
lines(s) ==
    LET p == split(s, "\n")
        raw == IF p[Len(p)] = "" THEN SubSeq(p, 1, Len(p) - 1) ELSE p IN
    [i \in 1..Len(raw) |-> IF ends_with(raw[i], "\r") THEN SubSeq(raw[i], 1, Len(raw[i]) - 1) ELSE raw[i]]

RECURSIVE DigitsValue(_)
DigitsValue(s) == IF s = "" THEN 0 ELSE 10 * DigitsValue(SubSeq(s, 1, Len(s) - 1)) + (IndexIn(Chr(s, Len(s)), Digits) - 1)

\* str::parse::<usize>(): decimal digits with an optional leading '+'
parse_usize(s) ==
    LET body == IF starts_with(s, "+") THEN SliceFrom(s, 1) ELSE s IN
    IF body # "" /\ \A i \in 1..Len(body) : IsAsciiDigit(Chr(body, i))
    THEN Some(DigitsValue(body)) ELSE None

\* str::parse::<f64>() on decimal literals: an optional sign, decimal digits
\* with at most one '.', at least one digit; the value when it is an integer
DecimalSyntax(s) ==
    /\ \A i \in 1..Len(s) : IsAsciiDigit(Chr(s, i)) \/ Chr(s, i) = "."
    /\ Cardinality({ i \in 1..Len(s) : Chr(s, i) = "." }) <= 1
    /\ \E i \in 1..Len(s) : IsAsciiDigit(Chr(s, i))
DecimalValue(s) ==
    LET dot == find(s, ".")
        int_part == IF dot = None THEN s ELSE Slice(s, 0, Unwrap(dot))
        frac_part == IF dot = None THEN "" ELSE SliceFrom(s, Unwrap(dot) + 1) IN
    IF \A i \in 1..Len(frac_part) : Chr(frac_part, i) = "0"
    THEN DigitsValue(int_part) ELSE Unrepresentable
parse_f64(s) ==
    LET neg == starts_with(s, "-")
        body == IF neg \/ starts_with(s, "+") THEN SliceFrom(s, 1) ELSE s IN
    IF ~DecimalSyntax(body) THEN None
    ELSE Some(IF neg THEN 0 - DecimalValue(body) ELSE DecimalValue(body))

\* format!("{}", v) of an integer-valued f64
RECURSIVE NatToString(_)
NatToString(n) == IF n < 10 THEN Chr(Digits, n + 1) ELSE NatToString(n \div 10) \o Chr(Digits, (n % 10) + 1)
to_string(v) == IF v < 0 THEN "-" \o NatToString(0 - v) ELSE NatToString(v)

\* HashMap insert
Insert(map, k, v) == [x \in DOMAIN map \cup {k} |-> IF x = k THEN v ELSE map[x]]
EmptyMap == [x \in {} |-> 0]


(***************************************************************************)
(* Expression evaluator (utils/expr_eval.rs)                               *)
(***************************************************************************)
Ok(v) == [ok |-> TRUE, v |-> v, err |-> ""]
Err(msg) == [ok |-> FALSE, v |-> 0, err |-> msg]

Number(n) == [t |-> "Number", n |-> n, s |-> ""]
Variable(name) == [t |-> "Variable", n |-> 0, s |-> name]
Function(name) == [t |-> "Function", n |-> 0, s |-> name]
Operator(ch) == [t |-> "Operator", n |-> 0, s |-> ch]
LeftParen == [t |-> "LeftParen", n |-> 0, s |-> "("]
RightParen == [t |-> "RightParen", n |-> 0, s |-> ")"]
Comma == [t |-> "Comma", n |-> 0, s |-> ","]

\* the longest prefix of s[i..] whose characters satisfy the scanner's test
RECURSIVE NumRunEnd(_, _)
NumRunEnd(s, i) ==
    IF i <= Len(s) /\ (IsAsciiDigit(Chr(s, i)) \/ Chr(s, i) = ".") THEN NumRunEnd(s, i + 1) ELSE i
RECURSIVE NameRunEnd(_, _)
NameRunEnd(s, i) ==
    IF i <= Len(s) /\ (Chr(s, i) \in CharSet(UpperLetters \o LowerLetters) \/ IsAsciiDigit(Chr(s, i)) \/ Chr(s, i) = "_")
    THEN NameRunEnd(s, i + 1) ELSE i

RECURSIVE TokenizeFrom(_, _, _)
TokenizeFrom(s, i, tokens) ==
    IF i > Len(s) THEN Ok(tokens)
    ELSE LET ch == Chr(s, i) IN
    IF ch \in {" ", "\t", "\n"} THEN TokenizeFrom(s, i + 1, tokens)
    ELSE IF IsAsciiDigit(ch) \/ ch = "." THEN
        LET j == NumRunEnd(s, i)
            p == parse_f64(SubSeq(s, i, j - 1)) IN
        IF p = None THEN Err("invalid float literal")
        ELSE TokenizeFrom(s, j, Append(tokens, Number(Unwrap(p))))
    ELSE IF ch \in CharSet(UpperLetters \o LowerLetters) \/ ch = "_" THEN
        LET j == NameRunEnd(s, i)
            name == to_uppercase(SubSeq(s, i, j - 1)) IN
        IF j <= Len(s) /\ Chr(s, j) = "("
        THEN TokenizeFrom(s, j, Append(tokens, Function(name)))
        ELSE TokenizeFrom(s, j, Append(tokens, Variable(name)))
    ELSE IF ch = "+" THEN TokenizeFrom(s, i + 1, Append(tokens, Operator("+")))
    ELSE IF ch = "-" THEN
        LET is_unary == tokens = <<>> \/ tokens[Len(tokens)].t \in {"Operator", "LeftParen", "Comma"} IN
        IF is_unary /\ i + 1 <= Len(s) /\ IsAsciiDigit(Chr(s, i + 1)) THEN
            LET j == NumRunEnd(s, i + 1)
                p == parse_f64(SubSeq(s, i, j - 1)) IN
            IF p = None THEN Err("invalid float literal")
            ELSE TokenizeFrom(s, j, Append(tokens, Number(Unwrap(p))))
        ELSE TokenizeFrom(s, i + 1, Append(tokens, Operator("-")))
    ELSE IF ch \in {"*", "/", "^", "%"} THEN TokenizeFrom(s, i + 1, Append(tokens, Operator(ch)))
    ELSE IF ch = "(" THEN TokenizeFrom(s, i + 1, Append(tokens, LeftParen))
    ELSE IF ch = ")" THEN TokenizeFrom(s, i + 1, Append(tokens, RightParen))
    ELSE IF ch = "," THEN TokenizeFrom(s, i + 1, Append(tokens, Comma))
    ELSE Err("Invalid character: " \o ch)

tokenize(expr) == TokenizeFrom(expr, 1, <<>>)

\* precedence with ^ binding no tighter than * / %
PrecedencePowerAsProduct(op) ==
    IF op \in {"+", "-"} THEN 1
    ELSE IF op \in {"*", "/", "%", "^"} THEN 2
    ELSE 0

precedence(op) ==
    IF op \in {"+", "-"} THEN 1
    ELSE IF op \in {"*", "/", "%"} THEN 2
    ELSE IF op = "^" THEN 3
    ELSE 0

Top(stack) == stack[Len(stack)]
Pop(stack) == SubSeq(stack, 1, Len(stack) - 1)

\* Token::Operator: pop the operators of at least the same precedence to the output
RECURSIVE PopOperators(_, _, _)
PopOperators(op, output, stack) ==
    IF stack # <<>> /\ stack[Len(stack)].t = "Operator" /\ precedence(stack[Len(stack)].s) >= precedence(op)
    THEN PopOperators(op, Append(output, Top(stack)), Pop(stack))
    ELSE [output |-> output, stack |-> Append(stack, Operator(op))]

\* Token::RightParen: pop to the output up to and including the nearest LeftParen
RECURSIVE PopToLeftParen(_, _)
PopToLeftParen(output, stack) ==
    IF stack = <<>> THEN [output |-> output, stack |-> stack]
    ELSE IF Top(stack).t = "LeftParen" THEN [output |-> output, stack |-> Pop(stack)]
    ELSE PopToLeftParen(Append(output, Top(stack)), Pop(stack))

\* Token::Comma: pop to the output until a LeftParen is on top
RECURSIVE PopUntilLeftParen(_, _)
PopUntilLeftParen(output, stack) ==
    IF stack = <<>> \/ Top(stack).t = "LeftParen" THEN [output |-> output, stack |-> stack]
    ELSE PopUntilLeftParen(Append(output, Top(stack)), Pop(stack))

RECURSIVE Reverse(_)
Reverse(q) == IF q = <<>> THEN <<>> ELSE Append(Reverse(Tail(q)), Head(q))

RECURSIVE RpnFrom(_, _, _, _)
RpnFrom(tokens, i, output, stack) ==
    IF i > Len(tokens) THEN output \o Reverse(stack)
    ELSE LET token == tokens[i] IN
    IF token.t \in {"Number", "Variable"} THEN RpnFrom(tokens, i + 1, Append(output, token), stack)
    ELSE IF token.t \in {"Function", "LeftParen"} THEN RpnFrom(tokens, i + 1, output, Append(stack, token))
    ELSE IF token.t = "Operator" THEN
        LET r == PopOperators(token.s, output, stack) IN RpnFrom(tokens, i + 1, r.output, r.stack)
    ELSE IF token.t = "RightParen" THEN
        LET r == PopToLeftParen(output, stack) IN
        IF r.stack # <<>> /\ Top(r.stack).t = "Function"
        THEN RpnFrom(tokens, i + 1, Append(r.output, Top(r.stack)), Pop(r.stack))
        ELSE RpnFrom(tokens, i + 1, r.output, r.stack)
    ELSE LET r == PopUntilLeftParen(output, stack) IN RpnFrom(tokens, i + 1, r.output, r.stack)

to_rpn(tokens) == RpnFrom(tokens, 1, <<>>, <<>>)

\* f64 arithmetic on integer values
RECURSIVE IntPow(_, _)
IntPow(a, b) == IF b = 0 THEN 1 ELSE a * IntPow(a, b - 1)
Abs(a) == IF a < 0 THEN 0 - a ELSE a
powf(a, b) == IF b >= 0 THEN IntPow(a, b) ELSE IF a = 1 THEN 1 ELSE Unrepresentable
fdiv(a, b) == IF (Abs(a) % Abs(b)) = 0
              THEN (IF (a < 0) = (b < 0) THEN Abs(a) \div Abs(b) ELSE 0 - (Abs(a) \div Abs(b)))
              ELSE Unrepresentable
frem(a, b) == IF b = 0 THEN Unrepresentable
              ELSE IF a < 0 THEN 0 - (Abs(a) % Abs(b)) ELSE a % Abs(b)

CanonicalName(name) ==
    IF name = "ATN" THEN "ATAN" ELSE IF name = "SQR" THEN "SQRT" ELSE IF name = "LN" THEN "LOG" ELSE name

UnaryValue(name, a) ==
    IF name = "ABS" THEN Abs(a)
    ELSE IF name \in {"INT", "ROUND"} THEN a
    ELSE IF name = "SGN" THEN (IF a > 0 THEN 1 ELSE IF a < 0 THEN 0 - 1 ELSE 0)
    ELSE IF name \in {"SIN", "TAN", "ATAN", "ATN"} /\ a = 0 THEN 0
    ELSE IF name \in {"COS", "EXP"} /\ a = 0 THEN 1
    ELSE IF name \in {"LOG", "LN", "LOG10"} /\ a = 1 THEN 0
    ELSE IF name \in {"SQRT", "SQR"} /\ \E r \in 0..Abs(a) : r * r = a THEN CHOOSE r \in 0..Abs(a) : r * r = a
    ELSE Unrepresentable
BinaryValue(name, a, b) ==
    IF name = "MAX" THEN (IF a >= b THEN a ELSE b)
    ELSE IF name = "MIN" THEN (IF a <= b THEN a ELSE b)
    ELSE powf(a, b)

\* the result of call_function: the value pushed and the stack left, or an error
call_function(name, stack) ==
    IF name \in {"SIN", "COS", "TAN", "ATAN", "ATN", "SQRT", "SQR", "ABS", "EXP",
                "LOG", "LN", "LOG10", "INT", "ROUND", "SGN"} THEN
        IF stack = <<>> THEN Err(CanonicalName(name) \o ": missing argument")
        ELSE Ok(Append(Pop(stack), UnaryValue(name, Top(stack))))
    ELSE IF name = "RND" THEN Ok(Append(stack, Unrepresentable))
    ELSE IF name \in {"MAX", "MIN", "POW"} THEN
        IF Len(stack) < 2 THEN Err(name \o ": missing argument")
        ELSE Ok(Append(Pop(Pop(stack)), BinaryValue(name, Top(Pop(stack)), Top(stack))))
    ELSE Err("Unknown function: " \o name)

\* an evaluate_rpn that reads a name without a binding as zero
RECURSIVE EvalRpnUnboundAsZero(_, _, _, _)
EvalRpnUnboundAsZero(rpn, i, stack, vars) ==
    IF i > Len(rpn) THEN (IF stack = <<>> THEN Err("Empty stack") ELSE Ok(Top(stack)))
    ELSE LET token == rpn[i] IN
    IF token.t = "Number" THEN EvalRpnUnboundAsZero(rpn, i + 1, Append(stack, token.n), vars)
    ELSE IF token.t = "Variable" THEN
        IF token.s \in DOMAIN vars THEN EvalRpnUnboundAsZero(rpn, i + 1, Append(stack, vars[token.s]), vars)
        ELSE EvalRpnUnboundAsZero(rpn, i + 1, Append(stack, 0), vars)
    ELSE IF token.t = "Operator" THEN
        IF Len(stack) < 2 THEN Err("Stack underflow")
        ELSE LET b == Top(stack)
                 a == Top(Pop(stack))
                 rest == Pop(Pop(stack)) IN
             IF token.s = "/" /\ b = 0 THEN Err("Division by zero")
             ELSE EvalRpnUnboundAsZero(rpn, i + 1,
                    Append(rest, CASE token.s = "+" -> a + b
                                   [] token.s = "-" -> a - b
                                   [] token.s = "*" -> a * b
                                   [] token.s = "/" -> fdiv(a, b)
                                   [] token.s = "^" -> powf(a, b)
                                   [] token.s = "%" -> frem(a, b)), vars)
    ELSE IF token.t = "Function" THEN
        LET r == call_function(token.s, stack) IN
        IF r.ok THEN EvalRpnUnboundAsZero(rpn, i + 1, r.v, vars) ELSE r
    ELSE Err("Unexpected token in RPN")

\* an evaluate_rpn whose division by zero yields a number
RECURSIVE EvalRpnZeroQuotient(_, _, _, _)
EvalRpnZeroQuotient(rpn, i, stack, vars) ==
    IF i > Len(rpn) THEN (IF stack = <<>> THEN Err("Empty stack") ELSE Ok(Top(stack)))
    ELSE LET token == rpn[i] IN
    IF token.t = "Number" THEN EvalRpnZeroQuotient(rpn, i + 1, Append(stack, token.n), vars)
    ELSE IF token.t = "Variable" THEN
        IF token.s \in DOMAIN vars THEN EvalRpnZeroQuotient(rpn, i + 1, Append(stack, vars[token.s]), vars)
        ELSE Err("Undefined variable: " \o token.s)
    ELSE IF token.t = "Operator" THEN
        IF Len(stack) < 2 THEN Err("Stack underflow")
        ELSE LET b == Top(stack)
                 a == Top(Pop(stack))
                 rest == Pop(Pop(stack)) IN
             IF token.s = "/" /\ b = 0 THEN EvalRpnZeroQuotient(rpn, i + 1, Append(rest, 0), vars)
             ELSE EvalRpnZeroQuotient(rpn, i + 1,
                    Append(rest, CASE token.s = "+" -> a + b
                                   [] token.s = "-" -> a - b
                                   [] token.s = "*" -> a * b
                                   [] token.s = "/" -> fdiv(a, b)
                                   [] token.s = "^" -> powf(a, b)
                                   [] token.s = "%" -> frem(a, b)), vars)
    ELSE IF token.t = "Function" THEN
        LET r == call_function(token.s, stack) IN
        IF r.ok THEN EvalRpnZeroQuotient(rpn, i + 1, r.v, vars) ELSE r
    ELSE Err("Unexpected token in RPN")

RECURSIVE EvalRpnFrom(_, _, _, _)
EvalRpnFrom(rpn, i, stack, vars) ==
    IF i > Len(rpn) THEN (IF stack = <<>> THEN Err("Empty stack") ELSE Ok(Top(stack)))
    ELSE LET token == rpn[i] IN
    IF token.t = "Number" THEN EvalRpnFrom(rpn, i + 1, Append(stack, token.n), vars)
    ELSE IF token.t = "Variable" THEN
        IF token.s \in DOMAIN vars THEN EvalRpnFrom(rpn, i + 1, Append(stack, vars[token.s]), vars)
        ELSE Err("Undefined variable: " \o token.s)
    ELSE IF token.t = "Operator" THEN
        IF Len(stack) < 2 THEN Err("Stack underflow")
        ELSE LET b == Top(stack)
                 a == Top(Pop(stack))
                 rest == Pop(Pop(stack)) IN
             IF token.s = "/" /\ b = 0 THEN Err("Division by zero")
             ELSE EvalRpnFrom(rpn, i + 1,
                    Append(rest, CASE token.s = "+" -> a + b
                                   [] token.s = "-" -> a - b
                                   [] token.s = "*" -> a * b
                                   [] token.s = "/" -> fdiv(a, b)
                                   [] token.s = "^" -> powf(a, b)
                                   [] token.s = "%" -> frem(a, b)), vars)
    ELSE IF token.t = "Function" THEN
        LET r == call_function(token.s, stack) IN
        IF r.ok THEN EvalRpnFrom(rpn, i + 1, r.v, vars) ELSE r
    ELSE Err("Unexpected token in RPN")

evaluate_rpn(rpn, vars) == EvalRpnFrom(rpn, 1, <<>>, vars)

\* ExpressionEvaluator::with_variables(vars).evaluate(expr)
EvaluateTokens(tokens, vars) == IF ~tokens.ok THEN tokens ELSE evaluate_rpn(to_rpn(tokens.v), vars)
evaluate(expr, vars) == EvaluateTokens(tokenize(expr), vars)


(***************************************************************************)
(* Turtle graphics state (graphics/mod.rs)                                 *)
(***************************************************************************)
WHITE == <<255, 255, 255>>

\* A coordinate is an f32. <<whole, tiny>> stands for whole + tiny * 10^-9, so
\* that the small errors of f32 trigonometry are kept; sums and products are
\* taken exactly on both parts (the rounding of f32 sums is left out).

\* TurtleState::new()
NewTurtle ==
    [x |-> <<0, 0>>, y |-> <<0, 0>>, heading |-> 0, pen_down |-> TRUE, pen_color |-> WHITE,
     pen_width |-> 2, lines |-> <<>>, visible |-> TRUE, bg_color |-> <<10, 10, 20>>]

TurtleLine(x1, y1, x2, y2, t) ==
    [start |-> <<x1, y1>>, end |-> <<x2, y2>>, color |-> t.pen_color, width |-> t.pen_width]

\* h.to_radians().sin() and .cos() for h degrees, on the multiples of 10 from 0
\* to 360. The f32 nearest to pi/2, pi, 3pi/2 and 2pi is not that number, so
\* cos 90 = -4.4e-8, sin 180 = -8.7e-8, cos 270 = 1.2e-8 and sin 360 = 1.75e-7.
SinDeg(h) ==
    LET sin10 == <<173648178, 342020143, 500000000, 642787610,
                   766044443, 866025404, 939692621, 984807753>> IN
    CASE h = 0 -> <<0, 0>>
      [] h = 90 -> <<1, 0>>
      [] h = 180 -> <<0, 0 - 87>>
      [] h = 270 -> <<0 - 1, 0>>
      [] h = 360 -> <<0, 175>>
      [] h \in 1..89 /\ h % 10 = 0 -> <<0, sin10[h \div 10]>>
      [] h \in 91..179 /\ h % 10 = 0 -> <<0, sin10[(180 - h) \div 10]>>
      [] h \in 181..269 /\ h % 10 = 0 -> <<0, 0 - sin10[(h - 180) \div 10]>>
      [] h \in 271..359 /\ h % 10 = 0 -> <<0, 0 - sin10[(360 - h) \div 10]>>
      [] OTHER -> Unrepresentable

CosDeg(h) ==
    CASE h = 0 -> <<1, 0>>
      [] h = 90 -> <<0, 0 - 44>>
      [] h = 180 -> <<0 - 1, 0>>
      [] h = 270 -> <<0, 12>>
      [] h = 360 -> <<1, 0>>
      [] h \in 1..269 /\ h % 90 # 0 -> SinDeg(h + 90)
      [] h \in 271..359 -> SinDeg(h - 270)
      [] OTHER -> Unrepresentable

\* a forward whose segment starts at the origin
ForwardDetached(t, distance) ==
    [t EXCEPT !.x = <<t.x[1] + distance * SinDeg(t.heading)[1], t.x[2] + distance * SinDeg(t.heading)[2]>>,
              !.y = <<t.y[1] - distance * CosDeg(t.heading)[1], t.y[2] - distance * CosDeg(t.heading)[2]>>,
              !.lines = IF t.pen_down
                        THEN Append(@, TurtleLine(<<0, 0>>, <<0, 0>>,
                               <<t.x[1] + distance * SinDeg(t.heading)[1], t.x[2] + distance * SinDeg(t.heading)[2]>>,
                               <<t.y[1] - distance * CosDeg(t.heading)[1], t.y[2] - distance * CosDeg(t.heading)[2]>>, t))
                        ELSE @]

forward(t, distance) ==
    LET nx == <<t.x[1] + distance * SinDeg(t.heading)[1], t.x[2] + distance * SinDeg(t.heading)[2]>>
        ny == <<t.y[1] - distance * CosDeg(t.heading)[1], t.y[2] - distance * CosDeg(t.heading)[2]>> IN
    [t EXCEPT !.x = nx, !.y = ny,
              !.lines = IF t.pen_down THEN Append(@, TurtleLine(t.x, t.y, nx, ny, t)) ELSE @]

back(t, distance) == forward(t, 0 - distance)

\* rem_euclid(360.0) is % 360 on the integers
left(t, angle) == [t EXCEPT !.heading = (t.heading - angle) % 360]

right(t, angle) == [t EXCEPT !.heading = (t.heading + angle) % 360]

\* a goto that overwrites the log with its segment
GotoOverwrites(t, x, y) ==
    [t EXCEPT !.x = x, !.y = y,
              !.lines = IF t.pen_down THEN <<TurtleLine(t.x, t.y, x, y, t)>> ELSE @]

goto(t, x, y) ==
    [t EXCEPT !.x = x, !.y = y,
              !.lines = IF t.pen_down THEN Append(@, TurtleLine(t.x, t.y, x, y, t)) ELSE @]

home(t) == [goto(t, <<0, 0>>, <<0, 0>>) EXCEPT !.heading = 0]

clear(t) == [t EXCEPT !.lines = <<>>]

(***************************************************************************)
(* Interpreter state (interpreter/mod.rs)                                  *)
(***************************************************************************)
\* ExecutionResult
Continue == [kind |-> "Continue", line |-> 0]
End == [kind |-> "End", line |-> 0]
Jump(line) == [kind |-> "Jump", line |-> line]
WaitForInput == [kind |-> "WaitForInput", line |-> 0]

\* what an executor leaves behind: the interpreter, the turtle and its Result
Outcome(i, t, res) == [interp |-> i, turtle |-> t, res |-> res]

\* Interpreter::new()
NewInterpreter ==
    [variables |-> EmptyMap, string_variables |-> EmptyMap, output |-> <<>>,
     program_lines |-> <<>>, current_line |-> 0, labels |-> EmptyMap,
     gosub_stack |-> <<>>, for_stack |-> <<>>,
     match_flag |-> FALSE, last_match_set |-> FALSE, stored_condition |-> None,
     input_callback |-> None, last_input |-> "",
     logo_procedures |-> EmptyMap,
     pending_input |-> None, pending_resume_line |-> None]

\* the screen mode stays Graphics, so log_output only pushes to output
log_output(i, text) == [i EXCEPT !.output = Append(@, text)]

evaluate_expression(i, expr) == evaluate(expr, i.variables)

\* the text of the line at a 0-based index
LineAt(i, idx) == i.program_lines[idx + 1]

\* str::replace(from, to): every non-overlapping occurrence, left to right
RECURSIVE replace(_, _, _)
replace(s, from, to) ==
    LET f == find(s, from) IN
    IF f = None \/ from = "" THEN s
    ELSE Slice(s, 0, Unwrap(f)) \o to \o replace(SliceFrom(s, Unwrap(f) + Len(from)), from, to)

\* the names captured by the pattern \*([A-Z_][A-Z0-9_]*)\* , left to right
RECURSIVE VarRunEnd(_, _)
VarRunEnd(s, i) ==
    IF i <= Len(s) /\ (Chr(s, i) \in CharSet(UpperLetters) \/ Chr(s, i) = "_" \/ IsAsciiDigit(Chr(s, i)))
    THEN VarRunEnd(s, i + 1) ELSE i
RECURSIVE CapturesFrom(_, _)
CapturesFrom(s, i) ==
    IF i > Len(s) THEN <<>>
    ELSE IF Chr(s, i) = "*" /\ i + 1 <= Len(s) /\ (Chr(s, i + 1) \in CharSet(UpperLetters) \/ Chr(s, i + 1) = "_") THEN
        LET j == VarRunEnd(s, i + 1) IN
        IF j <= Len(s) /\ Chr(s, j) = "*"
        THEN <<SubSeq(s, i + 1, j - 1)>> \o CapturesFrom(s, j + 1)
        ELSE CapturesFrom(s, i + 1)
    ELSE CapturesFrom(s, i + 1)

RECURSIVE InterpolateFrom(_, _, _, _)
InterpolateFrom(i, caps, k, result) ==
    IF k > Len(caps) THEN result
    ELSE LET var_name == caps[k] IN
         IF var_name \in DOMAIN i.variables
         THEN InterpolateFrom(i, caps, k + 1, replace(result, "*" \o var_name \o "*", to_string(i.variables[var_name])))
         ELSE IF var_name \in DOMAIN i.string_variables
         THEN InterpolateFrom(i, caps, k + 1, replace(result, "*" \o var_name \o "*", i.string_variables[var_name]))
         ELSE InterpolateFrom(i, caps, k + 1, result)

interpolate_text(i, text) ==
    IF find(text, "*") = None THEN text
    ELSE InterpolateFrom(i, CapturesFrom(text, 1), 1, text)

\* Interpreter::reset
\* a reset that leaves the pending input request in place
ResetKeepsRequest(i) ==
    [i EXCEPT !.variables = EmptyMap, !.string_variables = EmptyMap, !.output = <<>>,
              !.program_lines = <<>>, !.current_line = 0, !.labels = EmptyMap,
              !.gosub_stack = <<>>, !.for_stack = <<>>,
              !.match_flag = FALSE, !.last_match_set = FALSE, !.stored_condition = None,
              !.logo_procedures = EmptyMap]

\* a reset that leaves the numeric variables of the previous program bound
ResetKeepsVariables(i) ==
    [i EXCEPT !.string_variables = EmptyMap, !.output = <<>>,
              !.program_lines = <<>>, !.current_line = 0, !.labels = EmptyMap,
              !.gosub_stack = <<>>, !.for_stack = <<>>,
              !.match_flag = FALSE, !.last_match_set = FALSE, !.stored_condition = None,
              !.logo_procedures = EmptyMap,
              !.pending_input = None, !.pending_resume_line = None]

reset(i) ==
    [i EXCEPT !.variables = EmptyMap, !.string_variables = EmptyMap, !.output = <<>>,
              !.program_lines = <<>>, !.current_line = 0, !.labels = EmptyMap,
              !.gosub_stack = <<>>, !.for_stack = <<>>,
              !.match_flag = FALSE, !.last_match_set = FALSE, !.stored_condition = None,
              !.logo_procedures = EmptyMap,
              !.pending_input = None, !.pending_resume_line = None]

\* Interpreter::parse_line: an optional leading line number and the command
parse_line(line) ==
    LET l == trim(line)
        parts == splitn2(l) IN
    IF parse_usize(parts[1]) # None /\ Len(parts) > 1
    THEN [num |-> parse_usize(parts[1]), cmd |-> trim(parts[2])]
    ELSE [num |-> None, cmd |-> l]

\* a load loop that keeps the first definition of a label
RECURSIVE LoadLinesFirstLabel(_, _, _)
LoadLinesFirstLabel(i, ls, idx) ==
    IF idx >= Len(ls) THEN i
    ELSE LET pl == parse_line(ls[idx + 1])
             labelled == IF starts_with(pl.cmd, "L:") /\ trim(SliceFrom(pl.cmd, 2)) \notin DOMAIN i.labels
                         THEN [i EXCEPT !.labels = Insert(@, trim(SliceFrom(pl.cmd, 2)), idx)]
                         ELSE i IN
         LoadLinesFirstLabel([labelled EXCEPT !.program_lines = Append(@, pl)], ls, idx + 1)

\* the loop of load_program over the lines of the text
RECURSIVE LoadLines(_, _, _)
LoadLines(i, ls, idx) ==
    IF idx >= Len(ls) THEN i
    ELSE LET pl == parse_line(ls[idx + 1])
             labelled == IF starts_with(pl.cmd, "L:")
                         THEN [i EXCEPT !.labels = Insert(@, trim(SliceFrom(pl.cmd, 2)), idx)]
                         ELSE i IN
         LoadLines([labelled EXCEPT !.program_lines = Append(@, pl)], ls, idx + 1)

load_program(i, program_text) == LoadLines(reset(i), lines(program_text), 0)

\* Interpreter::request_input with a callback that answers `answer`
request_input(i, prompt) ==
    IF i.input_callback # None
    THEN [interp |-> [i EXCEPT !.last_input = Unwrap(i.input_callback)], input |-> Unwrap(i.input_callback)]
    ELSE [interp |-> i, input |-> ""]

\* a start_input_request that records nothing
StartInputRequestDropped(i, prompt, var_name, prefer_numeric) == i

start_input_request(i, prompt, var_name, prefer_numeric) ==
    IF i.pending_input = None
    THEN [i EXCEPT !.pending_input = Some([prompt |-> prompt, var_name |-> var_name,
                                          prefer_numeric |-> prefer_numeric]),
                   !.pending_resume_line = Some(i.current_line)]
    ELSE i

\* a provide_input that binds the value but leaves the request pending and the
\* cursor where it is
ProvideInputKeepsRequest(i, value) ==
    IF i.pending_input = None THEN i
    ELSE [i EXCEPT !.last_input = value,
                   !.string_variables = Insert(@, Unwrap(i.pending_input).var_name, value)]

\* a provide_input that starts the resumed run with empty GOSUB and FOR stacks
ProvideInputDropsFrames(i, value) ==
    IF i.pending_input = None THEN i
    ELSE [i EXCEPT !.pending_input = None, !.last_input = value,
                   !.string_variables = Insert(@, Unwrap(i.pending_input).var_name, value),
                   !.current_line = Unwrap(i.pending_resume_line) + 1,
                   !.pending_resume_line = None,
                   !.gosub_stack = <<>>, !.for_stack = <<>>]

\* a provide_input that resumes two lines after the request
ProvideInputSkipsLine(i, value) ==
    IF i.pending_input = None THEN i
    ELSE LET req == Unwrap(i.pending_input)
             num == parse_f64(trim(value))
             taken == [i EXCEPT !.pending_input = None, !.last_input = value]
             bound ==
                IF req.prefer_numeric THEN
                    IF num # None
                    THEN [taken EXCEPT !.variables = Insert(@, req.var_name, Unwrap(num))]
                    ELSE [taken EXCEPT !.string_variables = Insert(@, req.var_name, value)]
                ELSE IF trim(value) = ""
                    THEN [taken EXCEPT !.string_variables = Insert(@, req.var_name, "")]
                ELSE IF num # None
                    THEN [taken EXCEPT !.variables = Insert(@, req.var_name, Unwrap(num))]
                ELSE [taken EXCEPT !.string_variables = Insert(@, req.var_name, value)] IN
         IF bound.pending_resume_line # None
         THEN [bound EXCEPT !.current_line = Unwrap(bound.pending_resume_line) + 2,
                            !.pending_resume_line = None]
         ELSE bound

provide_input(i, value) ==
    IF i.pending_input = None THEN i
    ELSE LET req == Unwrap(i.pending_input)
             num == parse_f64(trim(value))
             taken == [i EXCEPT !.pending_input = None, !.last_input = value]
             bound ==
                IF req.prefer_numeric THEN
                    IF num # None
                    THEN [taken EXCEPT !.variables = Insert(@, req.var_name, Unwrap(num))]
                    ELSE [taken EXCEPT !.string_variables = Insert(@, req.var_name, value)]
                ELSE IF trim(value) = ""
                    THEN [taken EXCEPT !.string_variables = Insert(@, req.var_name, "")]
                ELSE IF num # None
                    THEN [taken EXCEPT !.variables = Insert(@, req.var_name, Unwrap(num))]
                ELSE [taken EXCEPT !.string_variables = Insert(@, req.var_name, value)] IN
         IF bound.pending_resume_line # None
         THEN [bound EXCEPT !.current_line = Unwrap(bound.pending_resume_line) + 1,
                            !.pending_resume_line = None]
         ELSE bound


(***************************************************************************)
(* BASIC executor (languages/basic/mod.rs)                                 *)
(***************************************************************************)
\* find_line_index: the index of the first line numbered num
find_line_index(i, num) ==
    LET hits == { idx \in 0..(Len(i.program_lines) - 1) : LineAt(i, idx).num = Some(num) } IN
    IF hits = {} THEN None ELSE Some(Min(hits))

\* the comma split of execute_print, commas inside quotes kept
RECURSIVE PrintParts(_, _, _, _, _)
PrintParts(args, k, current, in_quotes, parts) ==
    IF k > Len(args) THEN (IF trim(current) # "" THEN Append(parts, trim(current)) ELSE parts)
    ELSE LET ch == Chr(args, k) IN
         IF ch = "\"" THEN PrintParts(args, k + 1, current \o ch, ~in_quotes, parts)
         ELSE IF ch = "," /\ ~in_quotes THEN PrintParts(args, k + 1, "", in_quotes, Append(parts, trim(current)))
         ELSE PrintParts(args, k + 1, current \o ch, in_quotes, parts)

IsQuoted(s) == starts_with(s, "\"") /\ ends_with(s, "\"") /\ Len(s) >= 2
Unquote(s) == SubSeq(s, 2, Len(s) - 1)

\* the match of execute_print on the value v of an item that is no string literal
PrintValue(i, item_trim, v) ==
    IF v.ok THEN to_string(v.v)
    ELSE IF item_trim \in DOMAIN i.string_variables THEN i.string_variables[item_trim]
    ELSE IF item_trim \in DOMAIN i.variables THEN to_string(i.variables[item_trim])
    ELSE interpolate_text(i, item_trim)

RECURSIVE Join(_, _)
Join(items, sep) ==
    IF items = <<>> THEN ""
    ELSE IF Len(items) = 1 THEN items[1]
    ELSE items[1] \o sep \o Join(Tail(items), sep)

execute_print(i, args, t) ==
    LET parts == PrintParts(args, 1, "", FALSE, <<>>) IN
    IF parts = <<>> THEN Outcome(log_output(i, ""), t, Ok(Continue))
    ELSE Outcome(log_output(i, Join([k \in 1..Len(parts) |->
                                       IF IsQuoted(trim(parts[k])) THEN Unquote(trim(parts[k]))
                                       ELSE PrintValue(i, trim(parts[k]), evaluate_expression(i, trim(parts[k])))], " ")), t, Ok(Continue))

\* the match of execute_let on the value of the right-hand side
LetBind(i, var_name, expr, v, t) ==
    IF v.ok THEN Outcome([i EXCEPT !.variables = Insert(@, var_name, v.v)], t, Ok(Continue))
    ELSE Outcome([i EXCEPT !.string_variables =
                     Insert(@, var_name, IF IsQuoted(expr) THEN Unquote(expr) ELSE expr)],
                 t, Ok(Continue))

execute_let(i, assignment, t) ==
    LET pos == find(assignment, "=") IN
    IF pos = None THEN Outcome(i, t, Ok(Continue))
    ELSE LET var_name == trim(Slice(assignment, 0, Unwrap(pos)))
             expr == trim(SliceFrom(assignment, Unwrap(pos) + 1)) IN
         LetBind(i, var_name, expr, evaluate_expression(i, expr), t)

execute_input(i, var, t) ==
    LET var_name == trim(var)
        prompt == var_name \o "? " IN
    IF i.input_callback # None THEN
        LET r == request_input(i, prompt)
            num == parse_f64(trim(r.input)) IN
        IF num # None
        THEN Outcome([r.interp EXCEPT !.variables = Insert(@, var_name, Unwrap(num))], t, Ok(Continue))
        ELSE Outcome([r.interp EXCEPT !.string_variables = Insert(@, var_name, r.input)], t, Ok(Continue))
    ELSE Outcome(start_input_request(i, prompt, var_name, TRUE), t, Ok(WaitForInput))

\* a GOTO that says nothing when its line does not exist
ExecuteGotoSilent(i, line_num, t) ==
    LET num == parse_usize(trim(line_num)) IN
    IF num = None \/ find_line_index(i, Unwrap(num)) = None THEN Outcome(i, t, Ok(Continue))
    ELSE Outcome(i, t, Ok(Jump(Unwrap(find_line_index(i, Unwrap(num))))))

execute_goto(i, line_num, t) ==
    LET num == parse_usize(trim(line_num)) IN
    IF num = None THEN Outcome(i, t, Ok(Continue))
    ELSE LET idx == find_line_index(i, Unwrap(num)) IN
         IF idx # None THEN Outcome(i, t, Ok(Jump(Unwrap(idx))))
         ELSE Outcome(log_output(i, "GOTO " \o to_string(Unwrap(num)) \o " failed: line not found"),
                      t, Ok(Continue))

\* expressions evaluated in order with `?`: all the values, or the first error
RECURSIVE EvalAllFrom(_, _, _, _)
EvalNext(i, exprs, k, vals, v) ==
    IF ~v.ok THEN v ELSE EvalAllFrom(i, exprs, k + 1, Append(vals, v.v))
EvalAllFrom(i, exprs, k, vals) ==
    IF k > Len(exprs) THEN Ok(vals)
    ELSE EvalNext(i, exprs, k, vals, evaluate_expression(i, exprs[k]))
EvalAll(i, exprs) == EvalAllFrom(i, exprs, 1, <<>>)

\* a FOR that tests the bound itself and skips a three-line loop whose range is empty
ForPushTestsBound(i, var_name, has_step, vals, t) ==
    IF ~vals.ok THEN Outcome(i, t, Err(vals.err))
    ELSE IF (IF has_step /\ vals.v[1] < 0 THEN vals.v[Len(vals.v) - 1] < vals.v[Len(vals.v)]
             ELSE vals.v[Len(vals.v) - 1] > vals.v[Len(vals.v)])
    THEN Outcome([i EXCEPT !.variables = Insert(@, var_name, vals.v[Len(vals.v) - 1])],
                 t, Ok(Jump(i.current_line + 3)))
    ELSE Outcome([i EXCEPT !.variables = Insert(@, var_name, vals.v[Len(vals.v) - 1]),
                           !.for_stack = Append(@, [var_name |-> var_name,
                                                    end_value |-> vals.v[Len(vals.v)],
                                                    step |-> IF has_step THEN vals.v[1] ELSE 1,
                                                    for_line |-> i.current_line])],
                 t, Ok(Continue))

\* the tail of execute_for: vals holds [step,] start, end, in the order evaluated
ForPush(i, var_name, has_step, vals, t) ==
    IF ~vals.ok THEN Outcome(i, t, Err(vals.err))
    ELSE Outcome([i EXCEPT !.variables = Insert(@, var_name, vals.v[Len(vals.v) - 1]),
                           !.for_stack = Append(@, [var_name |-> var_name,
                                                    end_value |-> vals.v[Len(vals.v)],
                                                    step |-> IF has_step THEN vals.v[1] ELSE 1,
                                                    for_line |-> i.current_line])],
                 t, Ok(Continue))

execute_for(i, params, t) ==
    LET params_upper == to_uppercase(params)
        eq_pos == find(params, "=")
        to_pos == find(params_upper, " TO ")
        step_pos == find(params_upper, " STEP ") IN
    IF eq_pos = None THEN Outcome(i, t, Err("FOR missing '='"))
    ELSE IF to_pos = None THEN Outcome(i, t, Err("FOR missing TO"))
    ELSE LET var_name == trim(Slice(params, 0, Unwrap(eq_pos)))
             start_expr == trim(Slice(params, Unwrap(eq_pos) + 1, Unwrap(to_pos)))
             exprs == IF step_pos # None
                      THEN << trim(SliceFrom(params, Unwrap(step_pos) + 6)), start_expr,
                              trim(Slice(params, Unwrap(to_pos) + 4, Unwrap(step_pos))) >>
                      ELSE << start_expr, trim(SliceFrom(params, Unwrap(to_pos) + 4)) >> IN
         ForPush(i, var_name, step_pos # None, EvalAll(i, exprs), t)

\* a NEXT that drops the frame of the FOR it does not match
ExecuteNextDropsFrame(i, var, t) ==
    IF i.for_stack = <<>> THEN Outcome(i, t, Err("NEXT without FOR"))
    ELSE Outcome([i EXCEPT !.for_stack = Pop(@)], t,
                 IF trim(var) # "" /\ Top(i.for_stack).var_name # trim(var)
                 THEN Err("NEXT " \o trim(var) \o " does not match FOR " \o Top(i.for_stack).var_name)
                 ELSE Ok(Continue))

\* a NEXT that stops one value short of the end value
ExecuteNextExclusive(i, var, t) ==
    IF i.for_stack = <<>> THEN Outcome(i, t, Err("NEXT without FOR"))
    ELSE LET ctx == Top(i.for_stack)
             new_val == (IF ctx.var_name \in DOMAIN i.variables THEN i.variables[ctx.var_name] ELSE 0)
                        + ctx.step IN
         IF new_val < ctx.end_value
         THEN Outcome([i EXCEPT !.variables = Insert(@, ctx.var_name, new_val)], t,
                      Ok(Jump(ctx.for_line + 1)))
         ELSE Outcome([i EXCEPT !.for_stack = Pop(@)], t, Ok(Continue))

execute_next(i, var, t) ==
    LET var_name == trim(var) IN
    IF i.for_stack = <<>> THEN Outcome(i, t, Err("NEXT without FOR"))
    ELSE LET ctx == Top(i.for_stack) IN
         IF var_name # "" /\ ctx.var_name # var_name
         THEN Outcome(i, t, Err("NEXT " \o var_name \o " does not match FOR " \o ctx.var_name))
         ELSE LET current == IF ctx.var_name \in DOMAIN i.variables THEN i.variables[ctx.var_name] ELSE 0
                  new_val == current + ctx.step
                  should_continue == IF ctx.step >= 0 THEN new_val <= ctx.end_value
                                     ELSE new_val >= ctx.end_value IN
              IF should_continue
              THEN Outcome([i EXCEPT !.variables = Insert(@, ctx.var_name, new_val)], t,
                           Ok(Jump(ctx.for_line + 1)))
              ELSE Outcome([i EXCEPT !.for_stack = Pop(@)], t, Ok(Continue))

\* push_gosub comes before the lookup of the line
execute_gosub(i, line_num, t) ==
    LET num == parse_usize(trim(line_num)) IN
    IF num = None THEN Outcome(i, t, Ok(Continue))
    ELSE LET pushed == [i EXCEPT !.gosub_stack = Append(@, i.current_line)]
             idx == find_line_index(pushed, Unwrap(num)) IN
         IF idx # None THEN Outcome(pushed, t, Ok(Jump(Unwrap(idx))))
         ELSE Outcome(log_output(pushed, "GOSUB " \o to_string(Unwrap(num)) \o " failed: line not found"),
                      t, Ok(Continue))

\* a RETURN that takes the oldest frame of the stack
ExecuteReturnFifo(i, t) ==
    IF i.gosub_stack # <<>>
    THEN Outcome([i EXCEPT !.gosub_stack = Tail(@)], t, Ok(Jump(Head(i.gosub_stack) + 1)))
    ELSE Outcome(log_output(i, "RETURN without GOSUB"), t, Ok(Continue))

execute_return(i, t) ==
    IF i.gosub_stack # <<>>
    THEN Outcome([i EXCEPT !.gosub_stack = Pop(@)], t, Ok(Jump(Top(i.gosub_stack) + 1)))
    ELSE Outcome(log_output(i, "RETURN without GOSUB"), t, Ok(Continue))

\* a LINE that leaves the pen down
DrawLinePenDown(i, t, c) ==
    IF ~c.ok THEN Outcome(i, t, Err(c.err))
    ELSE Outcome(i, goto([goto([t EXCEPT !.pen_down = FALSE], <<c.v[1], 0>>, <<c.v[2], 0>>)
                              EXCEPT !.pen_down = TRUE],
                         <<c.v[3], 0>>, <<c.v[4], 0>>), Ok(Continue))

\* the two goto of LINE, pen lifted for the first and restored after the second
DrawLine(i, t, c) ==
    IF ~c.ok THEN Outcome(i, t, Err(c.err))
    ELSE Outcome(i, [goto([goto([t EXCEPT !.pen_down = FALSE], <<c.v[1], 0>>, <<c.v[2], 0>>)
                              EXCEPT !.pen_down = TRUE],
                          <<c.v[3], 0>>, <<c.v[4], 0>>) EXCEPT !.pen_down = t.pen_down], Ok(Continue))

\* BASIC LINE x1, y1, x2, y2
execute_line_cmd(i, args, t) ==
    LET raw == split(args, ",")
        parts == [k \in 1..Len(raw) |-> trim(raw[k])] IN
    IF Len(parts) < 4 THEN Outcome(i, t, Ok(Continue))
    ELSE DrawLine(i, t, EvalAll(i, SubSeq(parts, 1, 4)))

\* the loop over the 36 points of the circle, from the k-th on
segments == 36
RECURSIVE CircleFrom(_, _, _, _, _)
CircleFrom(t, cx, cy, r, k) ==
    IF k > segments THEN t
    ELSE CircleFrom(goto(t, <<cx + r * SinDeg(k * (360 \div segments))[1],
                              r * SinDeg(k * (360 \div segments))[2]>>,
                            <<cy + r * CosDeg(k * (360 \div segments))[1],
                              r * CosDeg(k * (360 \div segments))[2]>>), cx, cy, r, k + 1)

DrawCircle(i, t, c) ==
    IF ~c.ok THEN Outcome(i, t, Err(c.err))
    ELSE Outcome(i, [CircleFrom([goto([t EXCEPT !.pen_down = FALSE], <<c.v[1], 0>>, <<c.v[2] + c.v[3], 0>>)
                                    EXCEPT !.pen_down = TRUE], c.v[1], c.v[2], c.v[3], 1)
                        EXCEPT !.pen_down = t.pen_down], Ok(Continue))

execute_circle(i, args, t) ==
    LET raw == split(args, ",")
        parts == [k \in 1..Len(raw) |-> trim(raw[k])] IN
    IF Len(parts) < 3 THEN Outcome(i, t, Ok(Continue))
    ELSE DrawCircle(i, t, EvalAll(i, SubSeq(parts, 1, 3)))

RECURSIVE basic_execute(_, _, _)

\* evaluate_expression(cond_str).unwrap_or(0.0) != 0.0, then the THEN part
IfThen(i, c, then_str, t) ==
    IF ~((IF c.ok THEN c.v ELSE 0) # 0) THEN Outcome(i, t, Ok(Continue))
    ELSE IF then_str # "" /\ IsAsciiDigit(Chr(then_str, 1)) THEN execute_goto(i, then_str, t)
    ELSE basic_execute(i, then_str, t)

execute_if(i, condition, t) ==
    LET pos == find(to_uppercase(condition), "THEN") IN
    IF pos = None THEN Outcome(log_output(i, "IF missing THEN"), t, Ok(Continue))
    ELSE IfThen(i, evaluate_expression(i, trim(Slice(condition, 0, Unwrap(pos)))),
                trim(SliceFrom(condition, Unwrap(pos) + 4)), t)

\* the match of basic::execute on the upper-cased keyword
BasicMatch(i, kw, keyword, args, t) ==
    CASE kw = "PRINT" -> execute_print(i, args, t)
      [] kw = "LET" -> execute_let(i, args, t)
      [] kw = "INPUT" -> execute_input(i, args, t)
      [] kw = "GOTO" -> execute_goto(i, args, t)
      [] kw = "IF" -> execute_if(i, args, t)
      [] kw = "FOR" -> execute_for(i, args, t)
      [] kw = "NEXT" -> execute_next(i, args, t)
      [] kw = "GOSUB" -> execute_gosub(i, args, t)
      [] kw = "RETURN" -> execute_return(i, t)
      [] kw = "REM" -> Outcome(i, t, Ok(Continue))
      [] kw = "END" -> Outcome(i, t, Ok(End))
      [] kw = "LINE" -> execute_line_cmd(i, args, t)
      [] kw = "CIRCLE" -> execute_circle(i, args, t)
      [] OTHER -> Outcome(log_output(i, "Unknown BASIC command: " \o keyword), t, Ok(Continue))

\* basic::execute
basic_execute(i, command, t) ==
    LET trimmed == trim(command)
        it == splitn2(trimmed) IN
    IF trimmed = "" THEN Outcome(i, t, Ok(Continue))
    ELSE BasicMatch(i, to_uppercase(it[1]), it[1], IF Len(it) > 1 THEN it[2] ELSE "", t)


(***************************************************************************)
(* Logo executor (languages/logo/mod.rs)                                   *)
(***************************************************************************)
parse_named_color(name) ==
    CASE name = "BLACK" -> Some(<<0, 0, 0>>)
      [] name = "WHITE" -> Some(WHITE)
      [] name = "RED" -> Some(<<255, 0, 0>>)
      [] name = "GREEN" -> Some(<<0, 255, 0>>)
      [] name = "BLUE" -> Some(<<0, 0, 255>>)
      [] name = "YELLOW" -> Some(<<255, 255, 0>>)
      [] name = "CYAN" -> Some(<<0, 255, 255>>)
      [] name = "MAGENTA" -> Some(<<255, 0, 255>>)
      [] name = "ORANGE" -> Some(<<255, 165, 0>>)
      [] name = "PURPLE" -> Some(<<128, 0, 128>>)
      [] name = "PINK" -> Some(<<255, 192, 203>>)
      [] name = "BROWN" -> Some(<<165, 42, 42>>)
      [] name \in {"GRAY", "GREY"} -> Some(<<160, 160, 160>>)
      [] OTHER -> None

HexDigits == "0123456789ABCDEF"
\* u8::from_str_radix(two hex digits, 16)
HexByte(s) ==
    IF \A k \in 1..2 : UpperChar(Chr(s, k)) \in CharSet(HexDigits)
    THEN Some(16 * (IndexIn(UpperChar(Chr(s, 1)), HexDigits) - 1) + (IndexIn(UpperChar(Chr(s, 2)), HexDigits) - 1))
    ELSE None

\* trim_start_matches('#'), then two hex digits per channel
RECURSIVE parse_hex_color(_)
parse_hex_color(text) ==
    IF starts_with(text, "#") THEN parse_hex_color(SliceFrom(text, 1)) ELSE
    LET hex == text
        wide == IF Len(hex) = 3
                THEN Chr(hex, 1) \o Chr(hex, 1) \o Chr(hex, 2) \o Chr(hex, 2) \o Chr(hex, 3) \o Chr(hex, 3)
                ELSE hex IN
    IF Len(hex) \notin {3, 6} THEN None
    ELSE IF HexByte(SubSeq(wide, 1, 2)) = None \/ HexByte(SubSeq(wide, 3, 4)) = None
            \/ HexByte(SubSeq(wide, 5, 6)) = None THEN None
    ELSE Some(<<Unwrap(HexByte(SubSeq(wide, 1, 2))), Unwrap(HexByte(SubSeq(wide, 3, 4))),
                Unwrap(HexByte(SubSeq(wide, 5, 6)))>>)

clamp(v, lo, hi) == IF v < lo THEN lo ELSE IF v > hi THEN hi ELSE v

\* the r g b branch: three components evaluated in order, each clamped to 0..255
RgbColor(c) ==
    IF ~c.ok THEN c
    ELSE Ok(Some(<<clamp(c.v[1], 0, 255), clamp(c.v[2], 0, 255), clamp(c.v[3], 0, 255)>>))

\* the colour a SETCOLOR / SETBGCOLOR argument names: Ok(Some(colour)), Ok(None)
\* when it names none, or the evaluation error of an r g b component
ColorArg(i, args) ==
    LET trimmed == trim(args)
        parts == split_whitespace(trimmed) IN
    IF Len(parts) = 1 THEN
        LET named == parse_named_color(to_uppercase(parts[1])) IN
        IF named # None THEN Ok(named)
        ELSE IF starts_with(trimmed, "#") THEN Ok(parse_hex_color(trimmed))
        ELSE Ok(None)
    ELSE IF Len(parts) >= 3 THEN RgbColor(EvalAll(i, SubSeq(parts, 1, 3)))
    ELSE Ok(None)

\* SETCOLOR (bg = FALSE) and SETBGCOLOR (bg = TRUE) differ in the field they set
SetColor(i, t, c, bg) ==
    IF ~c.ok THEN Outcome(i, t, Err(c.err))
    ELSE IF c.v = None THEN Outcome(i, t, Ok(Continue))
    ELSE IF bg THEN Outcome(i, [t EXCEPT !.bg_color = Unwrap(c.v)], Ok(Continue))
    ELSE Outcome(i, [t EXCEPT !.pen_color = Unwrap(c.v)], Ok(Continue))

execute_setcolor(i, t, args) == SetColor(i, t, ColorArg(i, args), FALSE)

execute_setbgcolor(i, t, args) == SetColor(i, t, ColorArg(i, args), TRUE)

\* evaluate_expression(arg.trim())? and then the turtle call of the command
MoveValue(i, t, kw, d) ==
    IF ~d.ok THEN Outcome(i, t, Err(d.err))
    ELSE Outcome(i, CASE kw = "FORWARD" -> forward(t, d.v)
                      [] kw = "BACK" -> back(t, d.v)
                      [] kw = "LEFT" -> left(t, d.v)
                      [] kw = "RIGHT" -> right(t, d.v)
                      [] kw = "SETHEADING" -> [t EXCEPT !.heading = d.v]
                      [] kw = "PENWIDTH" -> [t EXCEPT !.pen_width = IF d.v >= 1 THEN d.v ELSE Unrepresentable],
                 Ok(Continue))

execute_forward(i, t, distance_str) == MoveValue(i, t, "FORWARD", evaluate_expression(i, trim(distance_str)))

execute_back(i, t, distance_str) == MoveValue(i, t, "BACK", evaluate_expression(i, trim(distance_str)))

execute_left(i, t, angle_str) == MoveValue(i, t, "LEFT", evaluate_expression(i, trim(angle_str)))

execute_right(i, t, angle_str) == MoveValue(i, t, "RIGHT", evaluate_expression(i, trim(angle_str)))

execute_setheading(i, t, angle_str) == MoveValue(i, t, "SETHEADING", evaluate_expression(i, trim(angle_str)))

\* f64::max(0.1) of an integer: the width itself from 1 on
execute_penwidth(i, t, arg) == MoveValue(i, t, "PENWIDTH", evaluate_expression(i, trim(arg)))

execute_penup(i, t) == Outcome(i, [t EXCEPT !.pen_down = FALSE], Ok(Continue))

execute_pendown(i, t) == Outcome(i, [t EXCEPT !.pen_down = TRUE], Ok(Continue))

execute_clearscreen(i, t) == Outcome(i, home(clear(t)), Ok(Continue))

execute_home(i, t) == Outcome(i, home(t), Ok(Continue))

SetXY(i, t, c) ==
    IF ~c.ok THEN Outcome(i, t, Err(c.err))
    ELSE Outcome(i, goto(t, <<c.v[1], 0>>, <<c.v[2], 0>>), Ok(Continue))

execute_setxy(i, t, coords) ==
    LET parts == split_whitespace(coords) IN
    IF Len(parts) < 2 THEN Outcome(i, t, Ok(Continue))
    ELSE SetXY(i, t, EvalAll(i, SubSeq(parts, 1, 2)))

execute_hideturtle(i, t) == Outcome(i, [t EXCEPT !.visible = FALSE], Ok(Continue))

execute_showturtle(i, t) == Outcome(i, [t EXCEPT !.visible = TRUE], Ok(Continue))

\* TO <name>: the lines up to the next END become the body; the cursor moves to that END
RECURSIVE ScanToEnd(_, _, _, _, _)
ScanToEnd(i, t, proc_name, idx, body) ==
    IF idx >= Len(i.program_lines) THEN Outcome(i, t, Err("TO " \o proc_name \o " missing END"))
    ELSE IF to_uppercase(trim(LineAt(i, idx).cmd)) = "END"
    THEN Outcome([i EXCEPT !.logo_procedures = Insert(@, proc_name, body), !.current_line = idx],
                 t, Ok(Continue))
    ELSE ScanToEnd(i, t, proc_name, idx + 1, Append(body, LineAt(i, idx).cmd))

execute_to(i, name, t) ==
    LET proc_name == to_uppercase(trim(name)) IN
    IF proc_name = "" THEN Outcome(i, t, Err("TO missing procedure name"))
    ELSE ScanToEnd(i, t, proc_name, i.current_line + 1, <<>>)

RECURSIVE logo_execute(_, _, _, _)

\* The call stack of the process is finite: StackLimit is the number of nested
\* frames of logo::execute it holds. A deeper call overflows the stack, which
\* ends the process; no caller sees a value, so this result passes through
\* every `?` up to the scheduler, which stops for good.
StackLimit == 4
StackOverflow == [ok |-> FALSE, v |-> 0, err |-> "thread has overflowed its stack"]

\* chunks(2) of the words of the bracketed list, each chunk joined into one command
Chunks(words) ==
    [k \in 1..((Len(words) + 1) \div 2) |->
        IF 2 * k <= Len(words) THEN words[2 * k - 1] \o " " \o words[2 * k] ELSE words[2 * k - 1]]

\* run the commands cmds[k..] in sequence, stopping at the first error (`?`)
RECURSIVE RunSequence(_, _, _, _, _)
RunSequence(i, t, cmds, k, d) ==
    IF k > Len(cmds) THEN Outcome(i, t, Ok(Continue))
    ELSE LET r == logo_execute(i, cmds[k], t, d + 1) IN
         IF ~r.res.ok THEN r ELSE RunSequence(r.interp, r.turtle, cmds, k + 1, d)

\* for _ in 0..count
RECURSIVE RepeatPasses(_, _, _, _, _)
RepeatPasses(i, t, cmds, remaining, d) ==
    IF remaining <= 0 THEN Outcome(i, t, Ok(Continue))
    ELSE LET r == RunSequence(i, t, cmds, 1, d) IN
         IF ~r.res.ok THEN r ELSE RepeatPasses(r.interp, r.turtle, cmds, remaining - 1, d)

RepeatCount(i, t, count, commands, d) ==
    IF ~count.ok THEN Outcome(i, t, Err(count.err))
    ELSE RepeatPasses(i, t, Chunks(split_whitespace(commands)), count.v, d)

execute_repeat(i, params_in, t, d) ==
    LET params == trim(params_in)
        bracket_start == find(params, "[")
        bracket_end == rfind(params, "]") IN
    IF bracket_start = None THEN Outcome(i, t, Err("REPEAT missing '['"))
    ELSE IF bracket_end = None THEN Outcome(i, t, Err("REPEAT missing ']'"))
    ELSE RepeatCount(i, t, evaluate_expression(i, trim(Slice(params, 0, Unwrap(bracket_start)))),
                     trim(Slice(params, Unwrap(bracket_start) + 1, Unwrap(bracket_end))), d)

ExecuteProcedureTwice(i, name, t, d) ==
    IF name \in DOMAIN i.logo_procedures
    THEN RunSequence(i, t, i.logo_procedures[name] \o i.logo_procedures[name], 1, d)
    ELSE Outcome(i, t, Err("Procedure " \o name \o " not found"))

execute_procedure(i, name, t, d) ==
    IF name \in DOMAIN i.logo_procedures
    THEN RunSequence(i, t, i.logo_procedures[name], 1, d)
    ELSE Outcome(i, t, Err("Procedure " \o name \o " not found"))

\* the match of logo::execute on parts[0]; arg0 and arg are parts.get(1) with
\* its two defaults, "0" and ""
LogoMatch(i, kw, arg0, arg, t, d) ==
    CASE kw \in {"FORWARD", "FD"} -> execute_forward(i, t, arg0)
      [] kw \in {"BACK", "BK", "BACKWARD"} -> execute_back(i, t, arg0)
      [] kw \in {"LEFT", "LT"} -> execute_left(i, t, arg0)
      [] kw \in {"RIGHT", "RT"} -> execute_right(i, t, arg0)
      [] kw \in {"PENUP", "PU"} -> execute_penup(i, t)
      [] kw \in {"PENDOWN", "PD"} -> execute_pendown(i, t)
      [] kw \in {"CLEARSCREEN", "CS"} -> execute_clearscreen(i, t)
      [] kw = "HOME" -> execute_home(i, t)
      [] kw = "SETXY" -> execute_setxy(i, t, arg)
      [] kw \in {"SETHEADING", "SETH"} -> execute_setheading(i, t, arg0)
      [] kw \in {"SETCOLOR", "SETPENCOLOR"} -> execute_setcolor(i, t, arg)
      [] kw \in {"PENWIDTH", "SETPENSIZE"} -> execute_penwidth(i, t, arg)
      [] kw = "SETBGCOLOR" -> execute_setbgcolor(i, t, arg)
      [] kw \in {"HIDETURTLE", "HT"} -> execute_hideturtle(i, t)
      [] kw \in {"SHOWTURTLE", "ST"} -> execute_showturtle(i, t)
      [] kw = "REPEAT" -> execute_repeat(i, arg, t, d)
      [] kw = "TO" -> execute_to(i, arg, t)
      [] kw = "END" -> Outcome(i, t, Ok(Continue))
      [] OTHER -> IF to_uppercase(kw) \in DOMAIN i.logo_procedures
                  THEN execute_procedure(i, to_uppercase(kw), t, d)
                  ELSE Outcome(log_output(i, "Unknown Logo command: " \o kw), t, Ok(Continue))

\* logo::execute
\* logo::execute, called as the d-th nested frame
logo_execute(i, command, t, d) ==
    LET parts == splitn2(to_uppercase(trim(command))) IN
    IF d > StackLimit THEN Outcome(i, t, StackOverflow)
    ELSE LogoMatch(i, parts[1], IF Len(parts) > 1 THEN parts[2] ELSE "0",
                   IF Len(parts) > 1 THEN parts[2] ELSE "", t, d)


(***************************************************************************)
(* PILOT executor.  languages/pilot of the unified interpreter is not part *)
(* of the sources at hand; this is section 4.5 of the specification.       *)
(***************************************************************************)
\* A: with a callback the answer is bound at once, as text; without one the
\* request is left pending, not preferring a number
pilot_accept(i, payload, t) ==
    LET var_name == trim(payload)
        prompt == var_name \o "? " IN
    IF i.input_callback # None THEN
        LET r == request_input(i, prompt) IN
        Outcome([r.interp EXCEPT !.string_variables = Insert(@, var_name, r.input)], t, Ok(Continue))
    ELSE Outcome(start_input_request(i, prompt, var_name, FALSE), t, Ok(WaitForInput))

pilot_jump(i, payload, t) ==
    LET label == trim(payload) IN
    IF label \in DOMAIN i.labels THEN Outcome(i, t, Ok(Jump(i.labels[label])))
    ELSE Outcome(i, t, Err("Label not found: " \o label))

\* C: the condition's value sets the match flag
pilot_compute(i, c, t) ==
    IF c.ok THEN Outcome([i EXCEPT !.match_flag = (c.v # 0), !.last_match_set = TRUE], t, Ok(Continue))
    ELSE Outcome(i, t, Err(c.err))

\* the command by its one-letter code; a line without a code is text to show
PilotMatch(i, code, payload, t) ==
    CASE code \in {"", "T"} -> Outcome(log_output(i, interpolate_text(i, payload)), t, Ok(Continue))
      [] code = "A" -> pilot_accept(i, payload, t)
      [] code \in {"J", "Y", "N"} ->
            IF code = "J" \/ (code = "Y" /\ i.match_flag) \/ (code = "N" /\ ~i.match_flag)
            THEN pilot_jump(i, payload, t) ELSE Outcome(i, t, Ok(Continue))
      [] code = "U" -> execute_let(i, payload, t)
      [] code = "C" -> pilot_compute(i, evaluate_expression(i, trim(payload)), t)
      [] code \in {"R", "L"} -> Outcome(i, t, Ok(Continue))
      [] code = "E" -> Outcome(i, t, Ok(End))
      [] OTHER -> Outcome(i, t, Err("Unknown PILOT command: " \o code))

pilot_execute(i, command, t) ==
    LET cmd == trim(command) IN
    IF Len(cmd) > 1 /\ Chr(cmd, 2) = ":"
    THEN PilotMatch(i, UpperChar(Chr(cmd, 1)), SliceFrom(cmd, 2), t)
    ELSE PilotMatch(i, "", cmd, t)


(***************************************************************************)
(* Command classifier and scheduler (interpreter/mod.rs)                   *)
(***************************************************************************)
logo_keywords ==
    {"FORWARD", "FD", "BACK", "BK", "LEFT", "LT", "RIGHT", "RT",
     "PENUP", "PU", "PENDOWN", "PD", "CLEARSCREEN", "CS", "HOME",
     "SETXY", "REPEAT", "TO", "END", "SETHEADING", "SETH",
     "SETCOLOR", "SETPENCOLOR", "PENWIDTH", "SETPENSIZE", "SETBGCOLOR",
     "HIDETURTLE", "HT", "SHOWTURTLE", "ST"}

basic_keywords ==
    {"LET", "PRINT", "INPUT", "GOTO", "IF", "THEN", "FOR", "NEXT",
     "GOSUB", "RETURN", "REM", "DIM", "DATA", "READ", "LINE", "CIRCLE", "SCREEN"}

\* a classifier that looks for a BASIC keyword before it looks for a Logo word
DetermineBasicFirst(i, command) ==
    LET cmd == trim(command)
        words == split_whitespace(cmd)
        first_upper == to_uppercase(IF words = <<>> THEN "" ELSE words[1]) IN
    IF Len(cmd) > 1 /\ Chr(cmd, 2) = ":" THEN "Pilot"
    ELSE IF first_upper \in basic_keywords THEN "Basic"
    ELSE IF first_upper \in logo_keywords \/ first_upper \in DOMAIN i.logo_procedures THEN "Logo"
    ELSE "Pilot"

determine_command_type(i, command) ==
    LET cmd == trim(command)
        words == split_whitespace(cmd)
        first_word == IF words = <<>> THEN "" ELSE words[1]
        first_upper == to_uppercase(first_word) IN
    IF Len(cmd) > 1 /\ Chr(cmd, 2) = ":" THEN "Pilot"
    ELSE IF first_upper \in logo_keywords \/ first_upper \in DOMAIN i.logo_procedures THEN "Logo"
    ELSE IF first_upper \in basic_keywords THEN "Basic"
    ELSE "Pilot"

execute_line(i, command, t) ==
    LET cmd_type == determine_command_type(i, command) IN
    CASE cmd_type = "Pilot" -> pilot_execute(i, command, t)
      [] cmd_type = "Basic" -> basic_execute(i, command, t)
      [] cmd_type = "Logo" -> logo_execute(i, command, t, 1)

\* the markers the scheduler prefixes its lines with (U+274C and U+26A0 in the source)
ErrorMarker == "[X] "
WarningMarker == "[!] "
TimeoutLine == ErrorMarker \o "Error: Execution timeout (10 seconds exceeded)"
MaxIterationsLine == WarningMarker \o "Warning: Maximum iterations reached"

(***************************************************************************)
(* Bounds                                                                  *)
(***************************************************************************)
\* the iteration ceiling of execute: 100000 in the source, scaled to the model
max_iterations == 8
\* execute calls the host makes between two loads
MaxCalls == 2
\* runs per load that the 10 second clock cuts
MaxTimeouts == 1

\* the program texts the host loads
\* FOR I = a TO b / PRINT I / NEXT I for a few ranges a <= b
ForRanges == { <<1, 3>>, <<2, 2>>, <<0, 1>>, <<-1, 0>> }
ForProgram(a, b) ==
    "10 FOR I = " \o to_string(a) \o " TO " \o to_string(b) \o "\n20 PRINT I\n30 NEXT I"

\* a subroutine that calls a subroutine
NestedGosub == "10 GOSUB 30\n20 IF 1 THEN END\n30 GOSUB 60\n40 PRINT 2\n50 RETURN\n60 PRINT 1\n70 RETURN"

\* the program of test_basic_if_then_goto
IfGreater == "10 LET X = 5\n20 IF X > 3 THEN 40\n30 PRINT \"Not reached\"\n40 PRINT \"Success\"\n50 END"

\* the program of test_error_recovery
GotoMissing == "10 PRINT \"Before\"\n20 GOTO 999\n30 PRINT \"After\""

\* a NEXT that names another variable than its FOR, and a RETURN without GOSUB
Mismatched == "10 FOR I = 1 TO 2\n20 NEXT J\n30 RETURN\n40 PRINT I"

\* statements whose argument is no number or cannot be evaluated
Swallowed == "10 GOTO ABC\n20 LET X = 1/0\n30 IF 1/0 THEN 10\n40 GOSUB ABC"

\* the program of test_logo_nested_repeat
NestedRepeat == "\nREPEAT 2 [REPEAT 2 [FORWARD 10 RIGHT 90]]\n"

\* the program of test_logo_procedures
Square == "\nTO SQUARE\nFORWARD 50\nRIGHT 90\nFORWARD 50\nRIGHT 90\nFORWARD 50\nRIGHT 90\nFORWARD 50\nRIGHT 90\nEND\nSQUARE\n"

\* a procedure whose body invokes the procedure itself
Recursing == "TO LOOP\nFD 1\nLOOP\nEND\nLOOP"

\* the program of test_mixed_language_detection
Mixed == "\nT:Starting\nPRINT \"BASIC says hello\"\nFORWARD 10\nT:Done\n"

\* a procedure named like a BASIC keyword, used before and after its definition
KeywordProcedure == "PRINT 0\nTO PRINT\nFD 1\nEND\nPRINT 1"

\* a label defined twice, on lines whose numbers differ from their indices, and
\* a line number used twice
Labelled == "30 L:A\n10 PRINT 1\n10 L:A\n20 L: B\n40 GOTO 10"

\* turns past a full circle and a heading set past it
Headings == "RIGHT 450\nLEFT 180\nSETHEADING 450"

\* the program of test_logo_repeat_square for a side d; for sides other than
\* 50 the square starts away from the origin, heading east
SquareSides == {50, 7}
SquareProgram(d) ==
    (IF d = 50 THEN "" ELSE "FORWARD 10\nRIGHT 90\n")
        \o "REPEAT 4 [FORWARD " \o to_string(d) \o " RIGHT 90]"

\* LINE and CIRCLE with the pen up or down, with arguments that evaluate and
\* with one that does not
GraphicsProgram(pen) ==
    pen \o "\nLINE 0, 0, 5, 5\nCIRCLE 0, 0, 2\nLINE 1, 1/0, 2, 2\nCIRCLE 0, 1/0, 2"

\* a segment drawn, a turn, and the screen cleared with the pen still down
ClearAfterMove == "FORWARD 10\nRIGHT 90\nCLEARSCREEN"

\* a request for input on the last line of the program
InputLast == "10 PRINT 1\n20 INPUT X"

\* a request for input inside a subroutine and a FOR loop
Suspended == "10 GOSUB 40\n20 PRINT I\n30 IF 1 THEN END\n40 FOR I = 1 TO 1\n50 INPUT X\n60 NEXT I\n70 RETURN"

\* programs of exactly max_iterations lines: the run takes its last line, an END or a
\* PRINT, on the pass that reaches the ceiling
RECURSIVE PrintLines(_)
PrintLines(n) == IF n = 0 THEN "" ELSE "PRINT 1\n" \o PrintLines(n - 1)
LastLines == {"IF 1 THEN END", "PRINT 2"}
CeilingProgram(final) == PrintLines(max_iterations - 1) \o final

\* a GOSUB to a line that does not exist, followed by a RETURN
GosubMissing == "10 GOSUB 999\n20 PRINT 1\n30 RETURN"

\* FOR loops whose range is empty, or runs against the step, or has a step of 0:
\* start, end and step
StepRanges == { <<1, 5, -1>>, <<3, 1, -2>>, <<4, 2, 1>>, <<1, 1, 0>> }
ForStepProgram(a, b, c) ==
    "10 FOR I = " \o to_string(a) \o " TO " \o to_string(b) \o " STEP " \o to_string(c)
        \o "\n20 PRINT I\n30 NEXT I"
EmptyRange == "10 FOR I = 5 TO 1\n20 PRINT I\n30 NEXT I"

\* a REPEAT whose list starts with a command that takes no argument
RepeatPenUp == "REPEAT 2 [PENUP FORWARD 10]"

\* numeric variables written in lower case
LowerCase == "10 LET x = 5\n20 LET y = x + 1\n30 PRINT y"

BasePrograms ==
    { "10 GOTO 10",
      "\n10 GOTO 10\n",
      "10 PRINT 1\n20 GOTO 10",
      "10 PRINT 1\n20 END\n30 PRINT 2",
      "10 INPUT X\n20 PRINT X",
      "10 PRINT \"A\"\n20 INPUT N\n30 PRINT N + 1",
      "T:HI\nA:NAME\nT:*NAME*\nE:\nT:NO",
      "10 FOR I = 1 TO 2\n20 PRINT I\n30 NEXT I",
      "10 FOR I = 1 TO 2",
      "10 GOSUB 30\n20 IF 1 THEN END\n30 PRINT 1\n40 RETURN",
      "10 GOSUB 20\n20 PRINT 1",
      "FORWARD Q\nPRINT 2",
      "PRINT 1\nNEXT I\nPRINT 2",
      "REPEAT 2 FD 1\nFD 1",
      "TO SQ\nFD 1",
      "REPEAT 2 [TO P]\nFD 1\nEND\nPRINT 3",
      "TO SQ\nFD 1\nRT 90\nEND\nSQ\nREPEAT 2 [SQ]",
      "10 IF X THEN END\n20 PRINT 1\n30 LET X = 1\n40 GOTO 10",
      NestedGosub,
      IfGreater,
      GotoMissing,
      Mismatched,
      Swallowed,
      NestedRepeat,
      Square,
      Recursing,
      Mixed,
      KeywordProcedure,
      Labelled,
      Headings,
      InputLast,
      LowerCase,
      RepeatPenUp,
      EmptyRange,
      GosubMissing,
      Suspended,
      ClearAfterMove }

Programs ==
    BasePrograms \cup { ForProgram(r[1], r[2]) : r \in ForRanges }
                 \cup { SquareProgram(d) : d \in SquareSides }
                 \cup { GraphicsProgram(pen) : pen \in {"PENUP", "PENDOWN"} }
                 \cup { CeilingProgram(final) : final \in LastLines }
                 \cup { ForStepProgram(r[1], r[2], r[3]) : r \in StepRanges }

\* what the user types, or the input callback answers
InputValues == {" 5", "abc", " "}
\* what the input callback answers, when the host has wired one
CallbackAnswers == {"7"}

\* the loader's result for each of the program texts, computed once
Loaded == [text \in Programs |-> load_program(NewInterpreter, text)]

(***************************************************************************)
(* The host's calls: load_program, execute, provide_input                  *)
(***************************************************************************)
VARIABLES
    interp,      \* the Interpreter
    turtle,      \* the caller's TurtleState, passed to execute by reference
    pc,          \* "idle": no call in progress; "loop": execute is at the head of its
                 \* while loop; "exit": execute has left the loop by break
    iterations,  \* the local counter of execute
    result,      \* what the last execute call returned: None while none has, or Some(Result)
    last,        \* the line the loop executed last: its index, text and Result, or None
    op,          \* the operation that took the last step
    calls,       \* execute calls since the last load
    timeouts,    \* of these, the calls the clock cut
    expression,  \* the text the host last passed to evaluate_expression
    evaluated    \* what that call returned: None while none was made, or Some(Result)

vars == <<interp, turtle, pc, iterations, result, last, op, calls, timeouts, expression, evaluated>>

Init ==
    /\ interp = NewInterpreter
    /\ turtle = NewTurtle
    /\ pc = "idle"
    /\ iterations = 0
    /\ result = None
    /\ last = None
    /\ op = "new"
    /\ calls = 0
    /\ timeouts = 0
    /\ expression = ""
    /\ evaluated = None

\* interp.load_program(text); the model loads a program when the turtle state is new
LoadProgram(text) ==
    /\ pc = "idle"
    /\ turtle = NewTurtle
    /\ interp' = [reset(interp) EXCEPT !.program_lines = Loaded[text].program_lines,
                                       !.labels = Loaded[text].labels]
    /\ iterations' = 0
    /\ result' = None
    /\ last' = None
    /\ op' = "load_program"
    /\ calls' = 0
    /\ timeouts' = 0
    /\ UNCHANGED <<turtle, pc, expression, evaluated>>

\* the host wires interp.input_callback, a public field, between two calls
SetInputCallback(answer) ==
    /\ pc = "idle"
    /\ interp.input_callback = None
    /\ interp' = [interp EXCEPT !.input_callback = Some(answer)]
    /\ op' = "input_callback"
    /\ UNCHANGED <<turtle, pc, iterations, result, last, calls, timeouts, expression, evaluated>>

\* the host passes a new TurtleState to the next run
NewTurtleState ==
    /\ pc = "idle"
    /\ turtle # NewTurtle
    /\ turtle' = NewTurtle
    /\ op' = "new_turtle"
    /\ UNCHANGED <<interp, pc, iterations, result, last, calls, timeouts, expression, evaluated>>

\* execute, up to the head of its loop
ExecuteCall ==
    /\ pc = "idle"
    /\ calls < MaxCalls
    /\ interp' = IF interp.current_line = 0 THEN [interp EXCEPT !.output = <<>>] ELSE interp
    /\ iterations' = 0
    /\ pc' = "loop"
    /\ result' = None
    /\ last' = None
    /\ op' = "execute"
    /\ calls' = calls + 1
    /\ UNCHANGED <<turtle, timeouts, expression, evaluated>>

LoopCondition == interp.current_line < Len(interp.program_lines) /\ iterations < max_iterations

\* a loop that moves past the line that asked for input before it stops
DispatchAdvancing(r) ==
    IF ~r.res.ok THEN
       [interp |-> [log_output(r.interp, ErrorMarker \o "Error at line "
                                 \o to_string(r.interp.current_line + 1) \o ": " \o r.res.err)
                    EXCEPT !.current_line = @ + 1],
        turtle |-> r.turtle, res |-> r.res, go |-> TRUE]
    ELSE CASE r.res.v.kind \in {"Continue", "WaitForInput"} ->
                [interp |-> [r.interp EXCEPT !.current_line = @ + 1],
                 turtle |-> r.turtle, res |-> r.res, go |-> r.res.v.kind = "Continue"]
           [] r.res.v.kind = "Jump" ->
                [interp |-> [r.interp EXCEPT !.current_line = r.res.v.line],
                 turtle |-> r.turtle, res |-> r.res, go |-> TRUE]
           [] r.res.v.kind = "End" ->
                [interp |-> r.interp, turtle |-> r.turtle, res |-> r.res, go |-> FALSE]

\* what the loop of execute does with the Result of execute_line: the
\* interpreter, the turtle, the Result, and whether the loop goes on
Dispatch(r) ==
    IF ~r.res.ok THEN
       [interp |-> [log_output(r.interp, ErrorMarker \o "Error at line "
                                 \o to_string(r.interp.current_line + 1) \o ": " \o r.res.err)
                    EXCEPT !.current_line = @ + 1],
        turtle |-> r.turtle, res |-> r.res, go |-> TRUE]
    ELSE CASE r.res.v.kind = "Continue" ->
                [interp |-> [r.interp EXCEPT !.current_line = @ + 1],
                 turtle |-> r.turtle, res |-> r.res, go |-> TRUE]
           [] r.res.v.kind = "Jump" ->
                [interp |-> [r.interp EXCEPT !.current_line = r.res.v.line],
                 turtle |-> r.turtle, res |-> r.res, go |-> TRUE]
           [] r.res.v.kind \in {"End", "WaitForInput"} ->
                [interp |-> r.interp, turtle |-> r.turtle, res |-> r.res, go |-> FALSE]

\* one pass of the loop body of execute on the line under the cursor
ExecuteIteration(i, t) ==
    LET command == LineAt(i, i.current_line).cmd IN
    IF trim(command) = ""
    THEN [interp |-> [i EXCEPT !.current_line = @ + 1], turtle |-> t, res |-> Ok(Continue), go |-> TRUE]
    ELSE Dispatch(execute_line(i, command, t))

\* the state after a pass that left r
StepTo(r) ==
    /\ interp' = r.interp
    /\ turtle' = r.turtle
    /\ last' = Some([line |-> interp.current_line,
                     cmd |-> LineAt(interp, interp.current_line).cmd, res |-> r.res])
    /\ pc' = IF r.go THEN "loop" ELSE "exit"

ExecuteStep ==
    /\ pc = "loop"
    /\ LoopCondition
    /\ ExecuteIteration(interp, turtle).res.err # StackOverflow.err
    /\ StepTo(ExecuteIteration(interp, turtle))
    /\ iterations' = iterations + 1
    /\ op' = "step"
    /\ UNCHANGED <<result, calls, timeouts, expression, evaluated>>

\* the command under the cursor recurses until the stack overflows: the process
\* is gone, execute never returns and no operation follows
ExecuteAbort ==
    /\ pc = "loop"
    /\ LoopCondition
    /\ ExecuteIteration(interp, turtle).res.err = StackOverflow.err
    /\ pc' = "aborted"
    /\ op' = "abort"
    /\ UNCHANGED <<interp, turtle, iterations, result, last, calls, timeouts, expression, evaluated>>

\* the clock check at the head of the loop finds more than 10 seconds elapsed
ExecuteTimeout ==
    /\ pc = "loop"
    /\ LoopCondition
    /\ timeouts < MaxTimeouts
    /\ interp' = log_output(interp, TimeoutLine)
    /\ result' = Some(Err("Execution timeout exceeded"))
    /\ pc' = "idle"
    /\ op' = "timeout"
    /\ timeouts' = timeouts + 1
    /\ UNCHANGED <<turtle, iterations, last, calls, expression, evaluated>>

\* an exit of execute that logs no warning at the ceiling
ExecuteLeaveSilent(i, n) == i

\* execute, after its loop
ExecuteLeave(i, n) == IF n >= max_iterations THEN log_output(i, MaxIterationsLine) ELSE i

\* an exit of execute that reports the ceiling as a failure
ExecuteReturnFailing ==
    /\ \/ pc = "exit"
       \/ pc = "loop" /\ ~LoopCondition
    /\ interp' = ExecuteLeave(interp, iterations)
    /\ result' = Some(IF iterations >= max_iterations THEN Err("Maximum iterations reached")
                      ELSE Ok(interp'.output))
    /\ pc' = "idle"
    /\ op' = "return"
    /\ UNCHANGED <<turtle, iterations, last, calls, timeouts, expression, evaluated>>

ExecuteReturn ==
    /\ \/ pc = "exit"
       \/ pc = "loop" /\ ~LoopCondition
    /\ interp' = ExecuteLeave(interp, iterations)
    /\ result' = Some(Ok(interp'.output))
    /\ pc' = "idle"
    /\ op' = "return"
    /\ UNCHANGED <<turtle, iterations, last, calls, timeouts, expression, evaluated>>

\* interp.provide_input(value)
ProvideInput(value) ==
    /\ pc = "idle"
    /\ interp' = provide_input(interp, value)
    /\ op' = "provide_input"
    /\ UNCHANGED <<turtle, pc, iterations, result, last, calls, timeouts, expression, evaluated>>

Next ==
    \/ \E text \in Programs : LoadProgram(text)
    \/ \E answer \in CallbackAnswers : SetInputCallback(answer)
    \/ NewTurtleState
    \/ ExecuteCall
    \/ ExecuteStep
    \/ ExecuteAbort
    \/ ExecuteTimeout
    \/ ExecuteReturn
    \/ \E value \in InputValues : ProvideInput(value)

Spec == Init /\ [][Next]_vars

(***************************************************************************)
(* The host's calls of evaluate_expression on a new interpreter            *)
(***************************************************************************)
\* the operand values of the arithmetic expressions
Literals == {2, 3, 4}
BinaryOperators == {"+", "-", "*", "/", "%", "^"}

\* an expression as a tree: operands joined by operators, an operand a literal or a
\* parenthesised expression
Lit(n) == [lit |-> n, sub |-> <<>>]
Group(e) == [lit |-> 0, sub |-> <<e>>]
Flat(operands, ops) == [operands |-> operands, ops |-> ops]

OperandTriples == (Literals \X Literals \X Literals) \cup {<<10, 4, 3>>}
ArithmeticTerms ==
    { Flat(<<Lit(a[1]), Lit(a[2]), Lit(a[3])>>, <<o1, o2>>) :
        a \in OperandTriples, o1 \in BinaryOperators, o2 \in BinaryOperators }
    \cup { Flat(<<Group(Flat(<<Lit(a[1]), Lit(a[2])>>, <<o1>>)), Lit(a[3])>>, <<o2>>) :
        a \in OperandTriples, o1 \in BinaryOperators, o2 \in BinaryOperators }
    \cup { Flat(<<Lit(a[1]), Group(Flat(<<Lit(a[2]), Lit(a[3])>>, <<o2>>))>>, <<o1>>) :
        a \in OperandTriples, o1 \in BinaryOperators, o2 \in BinaryOperators }
    \cup { Flat(<<Lit(10), Lit(4), Lit(3), Lit(2)>>, <<o1, o2, o3>>) :
        o1 \in BinaryOperators, o2 \in BinaryOperators, o3 \in BinaryOperators }

\* the text of an expression tree
RECURSIVE Render(_)
RECURSIVE RenderFrom(_, _)
RenderOperand(x) == IF x.sub = <<>> THEN to_string(x.lit) ELSE "(" \o Render(x.sub[1]) \o ")"
RenderFrom(e, k) ==
    IF k = Len(e.operands) THEN RenderOperand(e.operands[k])
    ELSE RenderOperand(e.operands[k]) \o " " \o e.ops[k] \o " " \o RenderFrom(e, k + 1)
Render(e) == RenderFrom(e, 1)

\* the reference evaluator: the operators of the highest level first, each level from
\* left to right.  None where a step has no integer value the model can hold.
RefPrecedence(o) == IF o \in {"+", "-"} THEN 1 ELSE IF o \in {"*", "/", "%"} THEN 2 ELSE 3
RefApply(o, a, b) ==
    IF o = "+" THEN Some(a + b)
    ELSE IF o = "-" THEN Some(a - b)
    ELSE IF o = "*" THEN Some(a * b)
    ELSE IF o = "/" THEN
        (IF b = 0 \/ (Abs(a) % Abs(b)) # 0 THEN None
         ELSE Some((IF (a < 0) = (b < 0) THEN 1 ELSE 0 - 1) * (Abs(a) \div Abs(b))))
    ELSE IF o = "%" THEN
        (IF b = 0 THEN None ELSE Some((IF a < 0 THEN 0 - 1 ELSE 1) * (Abs(a) % Abs(b))))
    ELSE IF b < 0 \/ b > 6 \/ Abs(a) > 20 THEN None
    ELSE Some(IntPow(a, b))
Without(seq, k) == SubSeq(seq, 1, k - 1) \o SubSeq(seq, k + 1, Len(seq))
RECURSIVE RefReduce(_, _, _)
RefReduce(vals, ops, level) ==
    IF level = 0 THEN Some(vals[1])
    ELSE LET at == { k \in 1..Len(ops) : RefPrecedence(ops[k]) = level } IN
    IF at = {} THEN RefReduce(vals, ops, level - 1)
    ELSE LET k == Min(at)
             r == RefApply(ops[k], vals[k], vals[k + 1]) IN
         IF r = None THEN None
         ELSE RefReduce([Without(vals, k + 1) EXCEPT ![k] = Unwrap(r)], Without(ops, k), level)
RECURSIVE RefValue(_)
RefValue(e) ==
    LET vs == [k \in 1..Len(e.operands) |->
                  IF e.operands[k].sub = <<>> THEN Some(e.operands[k].lit)
                  ELSE RefValue(e.operands[k].sub[1])] IN
    IF \E k \in 1..Len(vs) : vs[k] = None THEN None
    ELSE RefReduce([k \in 1..Len(vs) |-> Unwrap(vs[k])], e.ops, 3)

\* the texts of the arithmetic expressions with their reference values, computed once
Arithmetic ==
    { p \in { <<Render(e), RefValue(e)>> : e \in ArithmeticTerms } : p[2] # None }

\* token streams that are no expression: two operands without an operator, a closing
\* and an opening parenthesis without its partner, an operator without its operand
Malformed == {"2 3", "2+3)", "(2+3", "2 +"}

\* calls of the built-in functions with the number of arguments the match arm pops,
\* and with another number
ArityKept == {"ABS(2)", "SGN(4)", "INT(3)", "MAX(1,2)", "MIN(1,2)", "POW(2,3)"}
ArityBroken == {"ABS(1,2)", "MAX(1,2,3)", "1 + MAX(2)", "ABS()", "MAX(2)", "SGN(1,2)",
                "MIN(1,2,3)", "POW(2,2,2)"}

\* divisions by a denominator that is zero, alone and inside a larger expression
Numerators == {"0", "1", "7", "-3", "(1 + 2)"}
ZeroDenominators == {"0", "0.0", "(2 - 2)", "(0 * 5)"}
Quotients == { n \o " / " \o z : n \in Numerators, z \in ZeroDenominators }
ZeroDivisions ==
    Quotients
    \cup { "1 + " \o q : q \in Quotients }
    \cup { q \o " * 0" : q \in Quotients }
    \cup { "0 * (" \o q \o ")" : q \in Quotients }
    \cup { "MAX(" \o q \o ", 1)" : q \in Quotients }
    \cup { "ABS(" \o q \o ")" : q \in Quotients }
    \cup { "8 / 4 / (" \o q \o ")" : q \in Quotients }

Expressions ==
    { p[1] : p \in Arithmetic } \cup Malformed \cup ArityKept \cup ArityBroken \cup ZeroDivisions

\* the numeric bindings the host gives the evaluator: X = 10 and Y = 5 as in
\* test_variables, each of them present or absent
BoundValues == [n \in {"X", "Y"} |-> IF n = "X" THEN 10 ELSE 5]
Bindings == { [n \in D |-> BoundValues[n]] : D \in SUBSET (DOMAIN BoundValues) }

\* expressions over names: the text, the names it reads and its value when all are bound
VariableCases ==
    { [text |-> "X + Y", names |-> {"X", "Y"}, v |-> 15],
      [text |-> "X * 2 + Y", names |-> {"X", "Y"}, v |-> 25],
      [text |-> "X", names |-> {"X"}, v |-> 10],
      [text |-> "Y - X", names |-> {"X", "Y"}, v |-> 0 - 5],
      [text |-> "X + 0 * Y", names |-> {"X", "Y"}, v |-> 10],
      [text |-> "(Y + Z) * X", names |-> {"X", "Y", "Z"}, v |-> 0],
      [text |-> "Z", names |-> {"Z"}, v |-> 0] }
VariableExpressions == { c.text : c \in VariableCases }

\* interp.variables = bindings (a public field) and interp.evaluate_expression(expr).
\* The call takes &self and changes nothing, so the model makes it once, on the new
\* interpreter.
EvaluateExpression(bindings, expr) ==
    /\ op = "new"
    /\ interp' = [interp EXCEPT !.variables = bindings]
    /\ expression' = expr
    /\ evaluated' = Some(evaluate_expression(interp', expr))
    /\ op' = "evaluate_expression"
    /\ UNCHANGED <<turtle, pc, iterations, result, last, calls, timeouts>>

EvaluateNext ==
    \/ \E expr \in Expressions : EvaluateExpression(EmptyMap, expr)
    \/ \E bindings \in Bindings, expr \in VariableExpressions : EvaluateExpression(bindings, expr)

EvaluateSpec == Init /\ [][EvaluateNext]_vars

(***************************************************************************)
(* Properties                                                              *)
(***************************************************************************)
IsPrefix(a, b) == Len(a) <= Len(b) /\ SubSeq(b, 1, Len(a)) = a

\* the lines a step appended to the output log
Appended(before, after) == SubSeq(after, Len(before) + 1, Len(after))

\* the loop of execute is about to stop at the iteration ceiling with lines left
CutByCeiling ==
    /\ pc = "loop"
    /\ interp.current_line < Len(interp.program_lines)
    /\ iterations >= max_iterations

\* the line under the cursor is a BASIC INPUT statement about to execute
AtBasicInput ==
    /\ pc = "loop"
    /\ LoopCondition
    /\ determine_command_type(interp, LineAt(interp, interp.current_line).cmd) = "Basic"
    /\ to_uppercase(splitn2(trim(LineAt(interp, interp.current_line).cmd))[1]) = "INPUT"

\* the variable the INPUT statement under the cursor names
InputTarget == trim(splitn2(trim(LineAt(interp, interp.current_line).cmd))[2])

\* C1 (as claimed): once the scheduler has executed a line whose command is
\* END, the loop has stopped: no later line runs and nothing more is logged.
C1_EndLineStopsRun ==
    (op = "step" /\ last # None /\ to_uppercase(trim(Unwrap(last).cmd)) = "END")
        => pc = "exit"

C4_ErrorAdvancesOneLine ==
    [][op' = "step" /\ ~Unwrap(last').res.ok =>
          /\ Len(interp'.output) = Len(interp.output) + 1
          /\ IsPrefix(interp.output, interp'.output)
          /\ starts_with(interp'.output[Len(interp'.output)], ErrorMarker)
          /\ interp'.current_line = interp.current_line + 1
          /\ pc' = "loop"]_vars

\* C5: a BASIC INPUT line executed with no input callback records the request
\* (prompt, variable, prefer_numeric) with the current line as resume line and
\* stops the loop, the cursor, the log and the variables as they were; the
\* return that follows moves no cursor, binds nothing and logs no error line.
C5_InputWithoutCallbackSuspends ==
    /\ [][op' = "step" /\ AtBasicInput /\ interp.input_callback = None =>
            /\ interp'.pending_input = Some([prompt |-> InputTarget \o "? ",
                                            var_name |-> InputTarget,
                                            prefer_numeric |-> TRUE])
            /\ interp'.pending_resume_line = Some(interp.current_line)
            /\ interp'.current_line = interp.current_line
            /\ interp'.output = interp.output
            /\ interp'.variables = interp.variables
            /\ interp'.string_variables = interp.string_variables
            /\ Unwrap(last').res.ok /\ Unwrap(last').res.v = WaitForInput
            /\ pc' = "exit"]_vars
    /\ [][op' = "return" /\ last # None /\ Unwrap(last).res.ok /\ Unwrap(last).res.v = WaitForInput =>
            /\ [interp' EXCEPT !.output = interp.output] = interp
            /\ \A k \in 1..Len(Appended(interp.output, interp'.output)) :
                  ~starts_with(Appended(interp.output, interp'.output)[k], ErrorMarker)
            /\ result' = Some(Ok(interp'.output))]_vars

\* C5 witness: `20 INPUT N` ran without a callback and execute has returned.
C5_Witness_SuspendedAtInput ==
    /\ op = "return"
    /\ last # None
    /\ Unwrap(last).cmd = "INPUT N"
    /\ interp.input_callback = None
    /\ interp.pending_input = Some([prompt |-> "N? ", var_name |-> "N", prefer_numeric |-> TRUE])
    /\ interp.pending_resume_line = Some(1)
    /\ interp.current_line = 1
    /\ interp.output = <<"A">>
    /\ result = Some(Ok(<<"A">>))

\* C6: a request is pending exactly when a resume line is, and that line asks
\* for the request's variable; provide_input with a request pending leaves none
\* pending and the cursor one past the resume line; with none pending it
\* changes nothing.
C6_RequestConsumedOnce ==
    /\ [](/\ (interp.pending_input = None) <=> (interp.pending_resume_line = None)
          /\ interp.pending_input # None =>
                LET c == trim(LineAt(interp, Unwrap(interp.pending_resume_line)).cmd) IN
                \E key \in {"INPUT", "A:"} :
                    /\ starts_with(to_uppercase(c), key)
                    /\ trim(SliceFrom(c, Len(key))) = Unwrap(interp.pending_input).var_name)
    /\ [][op' = "provide_input" =>
            IF interp.pending_input # None
            THEN /\ interp'.pending_input = None
                 /\ interp'.pending_resume_line = None
                 /\ interp'.current_line = Unwrap(interp.pending_resume_line) + 1
            ELSE interp' = interp]_vars

\* C6 witness: the request of `10 INPUT X` was answered; none is pending, X is
\* bound and the cursor is on the line after the INPUT.
C6_Witness_RequestAnswered ==
    /\ op = "provide_input"
    /\ last # None
    /\ Unwrap(last).cmd = "INPUT X"
    /\ Unwrap(last).res.ok /\ Unwrap(last).res.v = WaitForInput
    /\ interp.pending_input = None
    /\ interp.pending_resume_line = None
    /\ interp.current_line = Unwrap(last).line + 1
    /\ "X" \in DOMAIN interp.variables

\* C7 (as claimed): provide_input binds a number exactly when the value parses
\* and the request prefers a number, and otherwise binds the value as a string.
C7_NumericIffParsesAndPreferred ==
    [][op' = "provide_input" /\ interp.pending_input # None =>
          \E value \in InputValues :
              /\ interp'.last_input = value
              /\ IF parse_f64(trim(value)) # None /\ Unwrap(interp.pending_input).prefer_numeric
                 THEN /\ interp'.variables = Insert(interp.variables,
                                                    Unwrap(interp.pending_input).var_name,
                                                    Unwrap(parse_f64(trim(value))))
                      /\ interp'.string_variables = interp.string_variables
                 ELSE /\ interp'.string_variables = Insert(interp.string_variables,
                                                           Unwrap(interp.pending_input).var_name,
                                                           value)
                      /\ interp'.variables = interp.variables]_vars

C9_OutputAppendOnlyAfterFirstCall ==
    [][op' # "load_program" /\ ~(op' = "execute" /\ calls = 0)
          => IsPrefix(interp.output, interp'.output)]_vars

\* C10 (as claimed): the GOSUB and FOR stacks are empty after load_program and
\* after every execute call that ended by END or past the last line.
C10_StacksEmptyAtLoadAndFinish ==
    /\ op = "load_program" => interp.gosub_stack = <<>> /\ interp.for_stack = <<>>
    /\ (/\ op = "return"
        /\ \/ last # None /\ Unwrap(last).res.ok /\ Unwrap(last).res.v = End
           \/ interp.current_line >= Len(interp.program_lines))
       => interp.gosub_stack = <<>> /\ interp.for_stack = <<>>

\* the run that just returned was the first after its load, met no timeout and
\* went past the last line
FirstRunFinished ==
    /\ op = "return"
    /\ calls = 1
    /\ timeouts = 0
    /\ interp.current_line >= Len(interp.program_lines)

\* the log without the maximum-iterations warning a return may have appended
LoggedLines ==
    IF interp.output # <<>> /\ interp.output[Len(interp.output)] = MaxIterationsLine
    THEN SubSeq(interp.output, 1, Len(interp.output) - 1) ELSE interp.output

\* C11: when FOR I = a TO b / PRINT I / NEXT I with a <= b has run past its last
\* line, the log holds a, a+1, ..., b, each once and in this order, and the FOR
\* stack is empty.
C11_ForLoopPrintsRange ==
    \A r \in ForRanges :
        (FirstRunFinished /\ interp.program_lines = Loaded[ForProgram(r[1], r[2])].program_lines)
        => /\ LoggedLines = [k \in 1..(r[2] - r[1] + 1) |-> to_string(r[1] + k - 1)]
           /\ interp.for_stack = <<>>

\* C11 witness: FOR I = 1 TO 3 has finished with 1, 2, 3 in the log.
C11_Witness_OneToThree ==
    /\ FirstRunFinished
    /\ interp.program_lines = Loaded[ForProgram(1, 3)].program_lines
    /\ interp.output = <<"1", "2", "3">>
    /\ interp.for_stack = <<>>

\* the line under the cursor is about to execute as the BASIC statement kw
AtBasicStatement(kw) ==
    /\ pc = "loop"
    /\ LoopCondition
    /\ determine_command_type(interp, LineAt(interp, interp.current_line).cmd) = "Basic"
    /\ to_uppercase(splitn2(trim(LineAt(interp, interp.current_line).cmd))[1]) = kw

\* the text after the keyword of the line under the cursor, trimmed
StatementArgument ==
    LET it == splitn2(trim(LineAt(interp, interp.current_line).cmd)) IN
    IF Len(it) > 1 THEN trim(it[2]) ELSE ""

\* some line of the program carries the line number n
HasLineNumber(n) == \E k \in 1..Len(interp.program_lines) : interp.program_lines[k].num = Some(n)

\* C12: a GOSUB n whose line n exists pushes the index of the GOSUB line and
\* moves the cursor to the first line numbered n; a RETURN with a frame on the
\* stack pops the most recent index r and moves the cursor to r + 1; neither
\* logs anything. The nested program logs the inner subroutine's line before the
\* rest of its caller and ends with the stack empty.
C12_GosubReturnLifo ==
    /\ [][op' = "step" /\ AtBasicStatement("GOSUB") /\ parse_usize(StatementArgument) # None
            /\ HasLineNumber(Unwrap(parse_usize(StatementArgument)))
          => /\ interp'.gosub_stack = Append(interp.gosub_stack, interp.current_line)
             /\ LineAt(interp, interp'.current_line).num = parse_usize(StatementArgument)
             /\ \A k \in 0..(interp'.current_line - 1) :
                    LineAt(interp, k).num # parse_usize(StatementArgument)
             /\ interp'.output = interp.output]_vars
    /\ [][op' = "step" /\ AtBasicStatement("RETURN") /\ interp.gosub_stack # <<>>
          => /\ interp'.gosub_stack = SubSeq(interp.gosub_stack, 1, Len(interp.gosub_stack) - 1)
             /\ interp'.current_line = interp.gosub_stack[Len(interp.gosub_stack)] + 1
             /\ interp'.output = interp.output]_vars
    /\ [](/\ op = "return" /\ calls = 1 /\ timeouts = 0
          /\ interp.program_lines = Loaded[NestedGosub].program_lines
          => /\ interp.output = <<"1", "2">>
             /\ interp.gosub_stack = <<>>)

\* C12 witness: the inner RETURN of the nested program has just popped the
\* second of two frames and resumed the outer subroutine after its GOSUB.
C12_Witness_InnerReturn ==
    /\ op = "step"
    /\ last # None
    /\ Unwrap(last).cmd = "RETURN"
    /\ Unwrap(last).line = 6
    /\ interp.program_lines = Loaded[NestedGosub].program_lines
    /\ interp.gosub_stack = <<0>>
    /\ interp.current_line = 3
    /\ interp.output = <<"1">>

\* C13 (as claimed): after LET X = 5, IF X > 3 THEN 40 jumps to line 40, so line
\* 30 does not run: the finished run has logged "Success" alone.
C13_TrueComparisonJumps ==
    (FirstRunFinished /\ interp.program_lines = Loaded[IfGreater].program_lines)
        => interp.output = <<"Success">>

\* C14: a GOTO n with no line numbered n appends the line-not-found message,
\* changes nothing else, and leaves the loop running with the cursor on the line
\* after the GOTO; the program of the test logs "Before", the message, "After".
C14_GotoMissingLineContinues ==
    /\ [][op' = "step" /\ AtBasicStatement("GOTO") /\ parse_usize(StatementArgument) # None
            /\ ~HasLineNumber(Unwrap(parse_usize(StatementArgument)))
          => /\ interp' = [interp EXCEPT
                              !.output = Append(@, "GOTO "
                                                   \o to_string(Unwrap(parse_usize(StatementArgument)))
                                                   \o " failed: line not found"),
                              !.current_line = @ + 1]
             /\ pc' = "loop"]_vars
    /\ [](FirstRunFinished /\ interp.program_lines = Loaded[GotoMissing].program_lines
          => interp.output = <<"Before", "GOTO 999 failed: line not found", "After">>)

\* C14 witness: GOTO 999 has just failed after "Before" was logged.
C14_Witness_GotoFailed ==
    /\ op = "step"
    /\ last # None
    /\ Unwrap(last).cmd = "GOTO 999"
    /\ interp.output = <<"Before", "GOTO 999 failed: line not found">>
    /\ interp.current_line = 2
    /\ pc = "loop"

\* a step that appended the one line `line` to the log, moved the cursor one
\* line on, left the loop running and changed nothing else of the interpreter
LoggedAndWentOn(line) ==
    /\ interp' = [interp EXCEPT !.output = Append(@, line), !.current_line = @ + 1]
    /\ pc' = "loop"

\* the error line the scheduler logs for an error of the line under the cursor
SchedulerErrorLine(message) ==
    ErrorMarker \o "Error at line " \o to_string(interp.current_line + 1) \o ": " \o message

\* C15: RETURN with an empty GOSUB stack, NEXT with an empty FOR stack, and
\* NEXT v with v not the variable of the top FOR frame each append one message
\* line, leave the stacks, the variables and everything else as they were, and
\* the run goes on at the next line.
C15_MissingFrameReportedAndSkipped ==
    /\ [][op' = "step" /\ AtBasicStatement("RETURN") /\ interp.gosub_stack = <<>>
          => LoggedAndWentOn("RETURN without GOSUB")]_vars
    /\ [][op' = "step" /\ AtBasicStatement("NEXT") /\ interp.for_stack = <<>>
          => LoggedAndWentOn(SchedulerErrorLine("NEXT without FOR"))]_vars
    /\ [][op' = "step" /\ AtBasicStatement("NEXT") /\ interp.for_stack # <<>>
            /\ StatementArgument # ""
            /\ interp.for_stack[Len(interp.for_stack)].var_name # StatementArgument
          => LoggedAndWentOn(SchedulerErrorLine(
                 "NEXT " \o StatementArgument \o " does not match FOR "
                 \o interp.for_stack[Len(interp.for_stack)].var_name))]_vars

\* C15 witness: NEXT J after FOR I, then RETURN without GOSUB, each left its
\* message, the FOR frame and I = 1 are still there, and the run went on.
C15_Witness_BothReported ==
    /\ FirstRunFinished
    /\ interp.program_lines = Loaded[Mismatched].program_lines
    /\ interp.output = << ErrorMarker \o "Error at line 2: NEXT J does not match FOR I",
                          "RETURN without GOSUB", "1" >>
    /\ Len(interp.for_stack) = 1
    /\ interp.gosub_stack = <<>>

\* the statement under the cursor hits one of the errors C16 names: a GOTO or
\* GOSUB whose target is no number, a LET whose right-hand side does not
\* evaluate, an IF whose condition does not evaluate
AtFailingStatement ==
    \/ (AtBasicStatement("GOTO") \/ AtBasicStatement("GOSUB")) /\ parse_usize(StatementArgument) = None
    \/ /\ AtBasicStatement("LET")
       /\ find(StatementArgument, "=") # None
       /\ ~evaluate_expression(interp, trim(SliceFrom(StatementArgument,
                                   Unwrap(find(StatementArgument, "=")) + 1))).ok
    \/ /\ AtBasicStatement("IF")
       /\ find(to_uppercase(StatementArgument), "THEN") # None
       /\ ~evaluate_expression(interp, trim(Slice(StatementArgument, 0,
                                   Unwrap(find(to_uppercase(StatementArgument), "THEN"))))).ok

\* C16 (as claimed): a statement that hits one of these errors appends at least
\* one line to the log.
C16_ErrorsLeaveATrace ==
    [][op' = "step" /\ AtFailingStatement => Len(interp'.output) > Len(interp.output)]_vars

\* C17 (as claimed): REPEAT 2 [REPEAT 2 [FORWARD 10 RIGHT 90]] run with the pen
\* down draws exactly 4 segments and logs no error.
C17_NestedRepeatDrawsFour ==
    FirstRunFinished /\ interp.program_lines = Loaded[NestedRepeat].program_lines
        => Len(turtle.lines) = 4 /\ interp.output = <<>>

\* the line under the cursor goes to the Logo executor with first word kw
AtLogoStatement(kw) ==
    /\ pc = "loop"
    /\ LoopCondition
    /\ determine_command_type(interp, LineAt(interp, interp.current_line).cmd) = "Logo"
    /\ splitn2(to_uppercase(trim(LineAt(interp, interp.current_line).cmd)))[1] = kw

\* the indices of the END lines after the cursor
EndsAfterCursor ==
    { idx \in (interp.current_line + 1)..(Len(interp.program_lines) - 1) :
        to_uppercase(trim(LineAt(interp, idx).cmd)) = "END" }

\* the lines strictly between the cursor and the line of index e, as written
LinesUpTo(e) ==
    [k \in 1..(e - interp.current_line - 1) |-> LineAt(interp, interp.current_line + k).cmd]

\* the line under the cursor consists of the name of a stored procedure that no
\* built-in Logo command shadows
AtProcedureCall ==
    /\ pc = "loop"
    /\ LoopCondition
    /\ determine_command_type(interp, LineAt(interp, interp.current_line).cmd) = "Logo"
    /\ to_uppercase(trim(LineAt(interp, interp.current_line).cmd))
           \in (DOMAIN interp.logo_procedures) \ logo_keywords

\* every line of body from the k-th on given to the Logo executor, once, in order
RECURSIVE Replayed(_, _, _, _)
Replayed(i, t, body, k) ==
    IF k > Len(body) THEN [interp |-> i, turtle |-> t]
    ELSE Replayed(logo_execute(i, body[k], t, 2).interp, logo_execute(i, body[k], t, 2).turtle, body, k + 1)

C19_EveryCommandCompletes == pc # "aborted"

\* the uppercased first token of a line, "" for a blank line
FirstToken(line) ==
    IF split_whitespace(line) = <<>> THEN "" ELSE to_uppercase(split_whitespace(line)[1])

\* the dialect the stated precedence gives a line under a procedure table
ClaimedDialect(line, procedures) ==
    CASE Len(trim(line)) >= 2 /\ SubSeq(trim(line), 2, 2) = ":" -> "Pilot"
      [] OTHER ->
         CASE FirstToken(line) \in logo_keywords \cup DOMAIN procedures -> "Logo"
           [] OTHER -> IF FirstToken(line) \in basic_keywords THEN "Basic" ELSE "Pilot"

\* C20: under every procedure table a run reaches, every line of the loaded
\* program is classified as the precedence says (PILOT by the colon, else Logo
\* by keyword or procedure name, else BASIC by keyword, else PILOT). The mixed
\* program runs each line in its own dialect: three lines logged, one segment
\* drawn. With a procedure PRINT defined, a later PRINT line is a Logo line: it
\* draws the body's segment and logs nothing, while the PRINT line before the
\* definition logged its value.
C20_ClassifierPrecedence ==
    /\ \A k \in 1..Len(interp.program_lines) :
          determine_command_type(interp, interp.program_lines[k].cmd)
              = ClaimedDialect(interp.program_lines[k].cmd, interp.logo_procedures)
    /\ FirstRunFinished /\ interp.program_lines = Loaded[Mixed].program_lines
          => /\ interp.output = <<"Starting", "BASIC says hello", "Done">>
             /\ Len(turtle.lines) = 1
    /\ FirstRunFinished /\ interp.program_lines = Loaded[KeywordProcedure].program_lines
          => /\ interp.output = <<"0">>
             /\ Len(turtle.lines) = 1

\* C20 witness: PRINT is a stored procedure and the line PRINT 1 has just run as
\* a Logo line
C20_Witness_KeywordShadowed ==
    /\ op = "step"
    /\ Unwrap(last).cmd = "PRINT 1"
    /\ "PRINT" \in DOMAIN interp.logo_procedures
    /\ interp.output = <<"0">>
    /\ Len(turtle.lines) = 1

\* every label of the table names a line of the loaded program that defines it
LabelsOfProgram(i) ==
    \A l \in DOMAIN i.labels :
        /\ i.labels[l] < Len(i.program_lines)
        /\ starts_with(LineAt(i, i.labels[l]).cmd, "L:")
        /\ trim(SliceFrom(LineAt(i, i.labels[l]).cmd, 2)) = l

\* C21: load_program, from whatever state it is called in, leaves the numeric
\* and string variables, the log, both stacks, the match flags, the procedure
\* table and the pending request empty and the cursor at 0; the label table
\* holds labels of the new program only; a provide_input that follows the load
\* directly changes nothing.
C21_LoadClearsEverything ==
    /\ [][op' = "load_program"
            => /\ interp' = [NewInterpreter EXCEPT !.program_lines = interp'.program_lines,
                                                   !.labels = interp'.labels,
                                                   !.input_callback = interp.input_callback,
                                                   !.last_input = interp.last_input]
               /\ LabelsOfProgram(interp')]_vars
    /\ [][op = "load_program" /\ op' = "provide_input" => interp' = interp]_vars

\* C21 witness: provide_input has been called right after a load, and nothing
\* is bound
C21_Witness_InputAfterLoad ==
    /\ op = "provide_input"
    /\ calls = 0
    /\ interp.program_lines = Loaded[Labelled].program_lines
    /\ DOMAIN interp.labels = {"A", "B"}
    /\ interp.pending_input = None
    /\ interp.variables = EmptyMap
    /\ interp.string_variables = EmptyMap
    /\ interp.current_line = 0

\* the indices of the lines that define the label l
DefinitionsOf(l) ==
    { idx \in 0..(Len(interp.program_lines) - 1) :
        /\ starts_with(LineAt(interp, idx).cmd, "L:")
        /\ trim(SliceFrom(LineAt(interp, idx).cmd, 2)) = l }

\* the indices of the lines numbered n
LinesNumbered(n) ==
    { idx \in 0..(Len(interp.program_lines) - 1) : LineAt(interp, idx).num = Some(n) }

\* C22: from the load on, the label table holds exactly the labels some L: line
\* defines, each mapped to the index of the last line that defines it, an index
\* into the program whatever the line's number is; a GOTO n or GOSUB n whose
\* number some line carries moves the cursor to the first line numbered n.
C22_LabelsAreIndices ==
    /\ [](/\ \A l \in DOMAIN interp.labels :
               /\ DefinitionsOf(l) # {}
               /\ interp.labels[l] \in DefinitionsOf(l)
               /\ \A idx \in DefinitionsOf(l) : idx <= interp.labels[l]
               /\ interp.labels[l] < Len(interp.program_lines)
          /\ \A idx \in 0..(Len(interp.program_lines) - 1) :
               starts_with(LineAt(interp, idx).cmd, "L:")
                   => trim(SliceFrom(LineAt(interp, idx).cmd, 2)) \in DOMAIN interp.labels)
    /\ [][(/\ op' = "step"
           /\ AtBasicStatement("GOTO") \/ AtBasicStatement("GOSUB")
           /\ parse_usize(StatementArgument) # None
           /\ LinesNumbered(Unwrap(parse_usize(StatementArgument))) # {})
            => /\ interp'.current_line \in LinesNumbered(Unwrap(parse_usize(StatementArgument)))
               /\ \A idx \in LinesNumbered(Unwrap(parse_usize(StatementArgument))) :
                      interp'.current_line <= idx]_vars

\* C22 witness: the label A, defined on the lines of index 0 and 2 (numbered 30
\* and 10), maps to 2, and GOTO 10 has moved the cursor to index 1, the first
\* of the two lines numbered 10
C22_Witness_LabelAndNumber ==
    /\ op = "step"
    /\ Unwrap(last).cmd = "GOTO 10"
    /\ interp.program_lines = Loaded[Labelled].program_lines
    /\ interp.labels = Insert(Insert(EmptyMap, "A", 2), "B", 3)
    /\ interp.current_line = 1

\* C23 (as claimed): the heading of the turtle is always in [0, 360).
C23_HeadingNormalised == 0 <= turtle.heading /\ turtle.heading < 360

\* the line under the cursor is REPEAT 4 [FORWARD d RIGHT 90] and the pen is down
AtSquare ==
    /\ AtLogoStatement("REPEAT")
    /\ \E d \in SquareSides : StatementArgument = "4 [FORWARD " \o to_string(d) \o " RIGHT 90]"
    /\ turtle.pen_down

\* the step appended exactly 4 segments, the first from the turtle's position,
\* each next one from the end of the one before, and left the heading as it was
FourChainedSegments ==
    /\ Len(turtle'.lines) = Len(turtle.lines) + 4
    /\ IsPrefix(turtle.lines, turtle'.lines)
    /\ turtle'.lines[Len(turtle.lines) + 1].start = <<turtle.x, turtle.y>>
    /\ \A k \in (Len(turtle.lines) + 2)..(Len(turtle.lines) + 4) :
          turtle'.lines[k].start = turtle'.lines[k - 1].end
    /\ turtle'.lines[Len(turtle.lines) + 4].end = <<turtle'.x, turtle'.y>>
    /\ turtle'.heading = turtle.heading

AppendedSegments(n) ==
    /\ Len(turtle'.lines) = Len(turtle.lines) + n
    /\ IsPrefix(turtle.lines, turtle'.lines)

\* C25: a LINE with four arguments appends exactly 1 segment and a CIRCLE with
\* three exactly 36, with the pen up as with the pen down, and the pen-down flag
\* is after the command what it was before; when an argument does not evaluate,
\* the command leaves the whole turtle, the flag included, as it was.
C25_LineAndCircleRestorePen ==
    /\ [][op' = "step" /\ AtBasicStatement("LINE") /\ Len(split(StatementArgument, ",")) >= 4
            => /\ turtle'.pen_down = turtle.pen_down
               /\ Unwrap(last').res.ok => AppendedSegments(1)
               /\ ~Unwrap(last').res.ok => turtle' = turtle]_vars
    /\ [][op' = "step" /\ AtBasicStatement("CIRCLE") /\ Len(split(StatementArgument, ",")) >= 3
            => /\ turtle'.pen_down = turtle.pen_down
               /\ Unwrap(last').res.ok => AppendedSegments(segments)
               /\ ~Unwrap(last').res.ok => turtle' = turtle]_vars

\* C25 witness: with the pen up, LINE and then CIRCLE have run; the log holds 37
\* segments and the pen is still up
C25_Witness_CircleWithPenUp ==
    /\ op = "step"
    /\ Unwrap(last).cmd = "CIRCLE 0, 0, 2"
    /\ Unwrap(last).res.ok
    /\ ~turtle.pen_down
    /\ Len(turtle.lines) = 37

\* C26 (as claimed): right after CLEARSCREEN or CS, whatever the turtle was
\* before, the segment log is empty, the position is (0, 0) and the heading 0.
C26_ClearScreenEmptiesLog ==
    [][op' = "step" /\ (AtLogoStatement("CLEARSCREEN") \/ AtLogoStatement("CS"))
          => /\ turtle'.lines = <<>>
             /\ turtle'.x = <<0, 0>> /\ turtle'.y = <<0, 0>>
             /\ turtle'.heading = 0]_vars

\* what a move of the turtle t to the state moved must have done to the log: one
\* segment more with the pen down, from the old to the new position in the pen's
\* colour and width, and nothing with the pen up
MoveLogged(t, moved) ==
    moved.lines = IF t.pen_down
                  THEN Append(t.lines, [start |-> <<t.x, t.y>>, end |-> <<moved.x, moved.y>>,
                                        color |-> t.pen_color, width |-> t.pen_width])
                  ELSE t.lines

\* the text names the command that empties the log
MentionsClear(text) ==
    find(to_uppercase(text), "CLEARSCREEN") # None \/ find(to_uppercase(text), "CS") # None

\* C27: in every turtle state a run reaches, forward, back and goto log their
\* move as one segment from the old to the new position in the current colour
\* and width when the pen is down, and log nothing when it is up; a step of the
\* scheduler whose command does not clear the screen keeps every segment and
\* only appends; CLEARSCREEN leaves at most the segment of its own move home;
\* load_program, provide_input and the start and return of execute leave the
\* log alone.
C27_LogOnlyAppendedOrEmptied ==
    /\ [](\A d \in {0 - 3, 0, 5} :
            turtle.heading \in {0, 90, 180, 270}
                => MoveLogged(turtle, forward(turtle, d)) /\ MoveLogged(turtle, back(turtle, d)))
    /\ [](\A p \in {<<0, 0>>, <<4, 0 - 2>>} : MoveLogged(turtle, goto(turtle, <<p[1], 0>>, <<p[2], 0>>)))
    /\ [][(/\ op' = "step"
           /\ ~MentionsClear(LineAt(interp, interp.current_line).cmd)
           /\ \A name \in DOMAIN interp.logo_procedures :
                 \A k \in 1..Len(interp.logo_procedures[name]) :
                    ~MentionsClear(interp.logo_procedures[name][k]))
            => IsPrefix(turtle.lines, turtle'.lines)]_vars
    /\ [][op' = "step" /\ (AtLogoStatement("CLEARSCREEN") \/ AtLogoStatement("CS"))
            => Len(turtle'.lines) <= 1]_vars
    /\ [][op' \notin {"step", "new_turtle"} => turtle'.lines = turtle.lines]_vars

\* C27 witness: FORWARD 10 from the origin with the pen down has logged its one
\* segment, in white and width 2
C27_Witness_ForwardLogged ==
    /\ op = "step"
    /\ Unwrap(last).cmd = "FORWARD 10"
    /\ turtle.pen_down
    /\ turtle.lines = <<[start |-> <<<<0, 0>>, <<0, 0>>>>, end |-> <<<<0, 0>>, <<0 - 10, 0>>>>,
                         color |-> WHITE, width |-> 2]>>

\* C28: for every well-formed variable-free expression over integer literals,
\* parentheses and + - * / % ^, evaluate returns the value of the reference evaluator
\* with precedence {+,-} < {*,/,%} < {^} and every operator, ^ included, associating
\* from left to right: 2 + 3 * 4 = 14, (2 + 3) * 4 = 20, 10 - 4 - 3 = 3, 2 ^ 3 ^ 2 = 64.
C28_EvaluateFollowsReference ==
    /\ \A p \in Arithmetic :
        op = "evaluate_expression" /\ expression = p[1] =>
            Unwrap(evaluated).ok /\ Unwrap(evaluated).v = Unwrap(p[2])
    /\ {<<"2 + 3 * 4", Some(14)>>, <<"(2 + 3) * 4", Some(20)>>,
        <<"10 - 4 - 3", Some(3)>>, <<"2 ^ 3 ^ 2", Some(64)>>} \subseteq Arithmetic

C28_Witness_PowerLeftToRight ==
    /\ op = "evaluate_expression"
    /\ expression = "2 ^ 3 ^ 2"
    /\ Unwrap(evaluated).ok
    /\ Unwrap(evaluated).v = 64

\* C29: evaluate returns an error, never a number, for every malformed token stream:
\* two operands with no operator between them (2 3), an unmatched closing or opening
\* parenthesis (2+3), (2+3), and an operator lacking an operand (2 +).
C29_MalformedIsAnError ==
    op = "evaluate_expression" /\ expression \in Malformed => ~Unwrap(evaluated).ok

\* C30: each function has a fixed arity (1 for SIN, COS, TAN, ATAN, SQRT, ABS, EXP, LOG,
\* LOG10, INT, ROUND, SGN; 2 for MAX, MIN, POW; 0 for RND), and a call with any other
\* number of arguments, e.g. ABS(1,2), MAX(1,2,3) or 1 + MAX(2), is an error rather
\* than a number.
C30_WrongArityIsAnError ==
    /\ op = "evaluate_expression" /\ expression \in ArityBroken => ~Unwrap(evaluated).ok
    /\ op = "evaluate_expression" /\ expression \in ArityKept => Unwrap(evaluated).ok

\* C31: evaluate resolves each variable name to its bound numeric value (X + Y with
\* X = 10, Y = 5 gives 15), and an expression that references a name with no numeric
\* binding is an error, never silently treated as zero.
C31_VariablesResolvedOrError ==
    \A c \in VariableCases :
        op = "evaluate_expression" /\ expression = c.text =>
            IF c.names \subseteq DOMAIN interp.variables
            THEN Unwrap(evaluated).ok /\ Unwrap(evaluated).v = c.v
            ELSE /\ ~Unwrap(evaluated).ok
                 /\ \E n \in c.names \ DOMAIN interp.variables :
                        Unwrap(evaluated).err = "Undefined variable: " \o n

C31_Witness_SumOfBound ==
    /\ op = "evaluate_expression"
    /\ expression = "X + Y"
    /\ interp.variables = BoundValues
    /\ Unwrap(evaluated).ok
    /\ Unwrap(evaluated).v = 15

\* C32: evaluating a / b where b is zero is an error for every numerator a, wherever
\* the division occurs in the expression; it never yields a number.
C32_DivisionByZeroIsAnError ==
    op = "evaluate_expression" /\ expression \in ZeroDivisions =>
        ~Unwrap(evaluated).ok /\ Unwrap(evaluated).err = "Division by zero"

C32_Witness_ZeroOverZeroInside ==
    /\ op = "evaluate_expression"
    /\ expression = "0 * (0 / (2 - 2))"
    /\ Unwrap(evaluated).err = "Division by zero"

\* the run of a new interpreter and a new turtle on a program text, with the input
\* callback the host wired: the state after k passes of the loop of its first execute
PassOf(p) == ExecuteIteration(p.interp, p.turtle)
RECURSIVE FreshRun(_, _, _)
FreshRun(text, callback, k) ==
    IF k = 0
    THEN [interp |-> [Loaded[text] EXCEPT !.input_callback = callback], turtle |-> NewTurtle]
    ELSE PassOf(FreshRun(text, callback, k - 1))

\* what the claim compares: cursor, output, variables and turtle
Observed(i, t) == <<i.current_line, i.output, i.variables, i.string_variables, t>>
ObservedOf(p) == Observed(p.interp, p.turtle)

C34_CursorInRange ==
    /\ 0 <= interp.current_line
    /\ interp.current_line <= Len(interp.program_lines)
    /\ \A k \in 1..Len(interp.gosub_stack) : interp.gosub_stack[k] < Len(interp.program_lines)
    /\ interp.pending_resume_line # None =>
            Unwrap(interp.pending_resume_line) < Len(interp.program_lines)
    /\ (last # None /\ Unwrap(last).res.ok /\ Unwrap(last).res.v.kind = "Jump") =>
            Unwrap(last).res.v.line <= Len(interp.program_lines)

\* C34 witness: provide_input has moved the cursor past the last line of the program
C34_Witness_ResumedAtTheEnd ==
    /\ op = "provide_input"
    /\ interp.program_lines = Loaded[InputLast].program_lines
    /\ interp.current_line = Len(interp.program_lines)
    /\ interp.variables = [n \in {"X"} |-> 5]

\* C35: the maximum-iterations warning is appended only when the run was actually cut
\* off by the ceiling, i.e. the loop stopped while the cursor was still inside the
\* program and the last command was neither END nor a wait for input; a program that
\* finishes normally on the pass that reaches the ceiling gets no warning.
C35_WarningOnlyWhenCut ==
    [][(/\ op' = "return"
        /\ Len(interp'.output) > Len(interp.output)
        /\ interp'.output[Len(interp'.output)] = MaxIterationsLine) => CutByCeiling]_vars

\* C36: a GOSUB whose target line number does not exist leaves the GOSUB return stack
\* unchanged (it logs the failure and continues), so a later RETURN never jumps back
\* to the line after that failed GOSUB.
C36_FailedGosubPushesNothing ==
    [][(/\ op' = "step"
        /\ AtBasicStatement("GOSUB")
        /\ parse_usize(StatementArgument) # None
        /\ ~HasLineNumber(Unwrap(parse_usize(StatementArgument))))
       => interp'.gosub_stack = interp.gosub_stack]_vars

\* what a suspended run has to find again: the stacks, the program, the labels and
\* the procedure table
Context(i) == <<i.gosub_stack, i.for_stack, i.program_lines, i.labels, i.logo_procedures>>

\* the variable a pending request asks for, if a request is pending
PendingTarget(i) == IF i.pending_input = None THEN {} ELSE {Unwrap(i.pending_input).var_name}

\* the bindings of map a other than those of the names in skip are those of map b
SameExcept(a, b, skip) ==
    /\ DOMAIN a \ skip = DOMAIN b \ skip
    /\ \A n \in DOMAIN a \ skip : a[n] = b[n]

\* C37: a suspend/resume cycle preserves the run's context: between the execute call
\* that returns waiting for input and the execute call after provide_input, the GOSUB
\* stack, the FOR stack, the program, the labels, the procedure table and every
\* variable other than the input target are unchanged, so a RETURN or NEXT executed
\* after the resume pairs with the GOSUB or FOR executed before the suspension.
C37_SuspendResumeKeepsContext ==
    /\ [][op' \in {"return", "provide_input", "input_callback", "new_turtle", "execute"} =>
            /\ Context(interp') = Context(interp)
            /\ SameExcept(interp'.variables, interp.variables, PendingTarget(interp))
            /\ SameExcept(interp'.string_variables, interp.string_variables,
                          PendingTarget(interp))]_vars
    /\ [][(/\ op' = "step"
           /\ calls = 2
           /\ interp.program_lines = Loaded[Suspended].program_lines
           /\ "X" \in DOMAIN interp.variables \cup DOMAIN interp.string_variables) =>
            /\ AtBasicStatement("NEXT") => interp.for_stack # <<>> /\ interp'.for_stack = <<>>
            /\ AtBasicStatement("RETURN") =>
                   interp.gosub_stack = <<0>> /\ interp'.current_line = 1]_vars

\* C37 witness: after the resume of the program that asks for input inside a
\* subroutine and a FOR loop, the RETURN has gone back to the line after the GOSUB
C37_Witness_ReturnAfterResume ==
    /\ op = "step"
    /\ calls = 2
    /\ interp.program_lines = Loaded[Suspended].program_lines
    /\ last # None
    /\ Unwrap(last).cmd = "RETURN"
    /\ interp.current_line = 1
    /\ interp.last_input = "abc"
    /\ interp.gosub_stack = <<>>
    /\ interp.for_stack = <<>>

\* C38: the body of a FOR loop executes at least once for every start, end and step:
\* FOR only initialises the variable and pushes a frame, and the bound is tested only
\* by NEXT, so FOR I = 5 TO 1 followed by PRINT I / NEXT I prints 5 once and then
\* pops the frame.
C38_ForBodyRunsOnce ==
    /\ [][(op' = "step" /\ AtBasicStatement("FOR") /\ Unwrap(last').res.ok) =>
            /\ pc' = "loop"
            /\ interp'.current_line = interp.current_line + 1
            /\ Len(interp'.for_stack) = Len(interp.for_stack) + 1
            /\ Top(interp'.for_stack).for_line = interp.current_line
            /\ interp'.output = interp.output]_vars
    /\ [](FirstRunFinished /\ interp.program_lines = Loaded[EmptyRange].program_lines
            => interp.output = <<"5">> /\ interp.for_stack = <<>>)
    /\ [](\A r \in StepRanges :
            (/\ op = "return"
             /\ calls = 1
             /\ timeouts = 0
             /\ interp.program_lines = Loaded[ForStepProgram(r[1], r[2], r[3])].program_lines)
            => interp.output # <<>> /\ interp.output[1] = to_string(r[1]))

\* C38 witness: FOR I = 5 TO 1 has run its body once and finished with the frame popped
C38_Witness_EmptyRangePrinted ==
    /\ FirstRunFinished
    /\ interp.program_lines = Loaded[EmptyRange].program_lines
    /\ interp.output = <<"5">>
    /\ interp.for_stack = <<>>
    /\ interp.variables = [n \in {"I"} |-> 5]

\* C39: REPEAT n [list] executes every command of the bracketed list, in order, on
\* each of the n passes, also when the list mixes zero-argument commands (PENUP,
\* PENDOWN, HOME) with one-argument commands: REPEAT 2 [PENUP FORWARD 10] lifts the
\* pen and moves the turtle forward 10 twice.
C39_RepeatRunsMixedList ==
    [][(/\ op' = "step"
        /\ pc = "loop"
        /\ LoopCondition
        /\ LineAt(interp, interp.current_line).cmd = RepeatPenUp) =>
            /\ Unwrap(last').res.ok
            /\ turtle' = forward(forward([turtle EXCEPT !.pen_down = FALSE], 10), 10)
            /\ interp'.output = interp.output]_vars

\* C40: a numeric variable assigned by LET is readable under the name it was assigned
\* with in every later expression, whatever letter case the program uses: after
\* LET x = 5, LET y = x + 1 binds y to the number 6.
C40_LetVariableReadable ==
    /\ \A n \in DOMAIN interp.variables :
        /\ evaluate_expression(interp, n).ok
        /\ evaluate_expression(interp, n).v = interp.variables[n]
    /\ (FirstRunFinished /\ interp.program_lines = Loaded[LowerCase].program_lines) =>
        /\ "y" \in DOMAIN interp.variables
        /\ interp.variables["y"] = 6

====
